---- MODULE Spec2Model ----
(***************************************************************************)
(* Model of scripts/incremental_loader.py: the DuckDB -> Postgres loader.  *)
(*                                                                         *)
(* Part 1: ordenar_tabelas_topologicamente (Kahn's sort over the foreign   *)
(* keys read from the schema_json documents of table_metadata).            *)
(* Part 2: main and processar_tabela, run against a source database and a  *)
(* destination database with transactions, over one or more executions.    *)
(* Part 3: the type mappers mapear_tipo_duckdb_para_postgres_type and      *)
(* mapear_tipo_duckdb_para_postgres, on type names as character strings.   *)
(*                                                                         *)
(* Model of app/duckdb_app.py and app._duckdb.py: Part 4, the class        *)
(* DuckDBPipeline that creates the tables of the source database and       *)
(* inserts their rows.                                                     *)
(***************************************************************************)
EXTENDS Integers, Sequences, FiniteSets, Bags, TLC

\* Table names of the model.
Nomes == {"clientes", "pedidos", "itens"}

\* Total number of column entries over all schema_json documents of an input.
MaxEntradas == 3

\* One column entry of a schema_json document: "malformado" is a value that is
\* not a JSON object (definicao.get raises), "sem_fk" a column whose
\* "foreign_key" is null or has no "table", any other value the referenced table.
Entradas == {"malformado", "sem_fk"} \cup Nomes

\* The schema_json document of a table: "ausente" (table_metadata has no row
\* for the table), "invalido" (text that json.loads rejects) or "objeto" (a JSON
\* object) with its column entries.
DocVazio == [tipo |-> "ausente", cols |-> <<>>]

DocsCom(n) ==
    IF n = 0
    THEN {[tipo |-> t, cols |-> <<>>] : t \in {"ausente", "invalido", "objeto"}}
    ELSE {[tipo |-> "objeto", cols |-> c] : c \in [1..n -> Entradas]}

\* The documents of the tables of a list with n[t] column entries for table t;
\* a table outside the list has no row in table_metadata.
DocsDe(t, n, tabs) == IF t \in tabs THEN DocsCom(n[t]) ELSE {DocVazio}

\* The ways to give every table of a list a number of column entries, at most b
\* in all.
Reparticoes(tabs, b) ==
    {n \in [Nomes -> 0..b] :
        /\ n["clientes"] + n["pedidos"] + n["itens"] <= b
        /\ \A t \in Nomes \ tabs : n[t] = 0}

Range(s) == {s[i] : i \in 1..Len(s)}

\* Lists of distinct table names.
Listas == {s \in UNION {[1..n -> Nomes] : n \in 0..Cardinality(Nomes)} :
             \A i, j \in 1..Len(s) : i # j => s[i] # s[j]}

\* Number of rows a source table can hold.
MaxLinhas == 2

\* Number of executions of the script.
MaxExecucoes == 2

\* Number of failures of the environment (connection lost, value that cannot be
\* converted) over all executions.
MaxFalhas == 1

\* The data tables of the source database of the loader.
TabelasDados == {"clientes", "pedidos"}

\* The data table of the source that changes between two executions.
TabelasQueMudam == {"clientes"}

TabelasDestino == Nomes \cup {"table_metadata", "fk_metadata"}

\* SHOW TABLES lists the tables by name.
OrdemAlfabetica == <<"clientes", "fk_metadata", "itens", "pedidos", "table_metadata">>

\* The tables a row of table_metadata can describe, by name.
NomesEmOrdem == SelectSeq(OrdemAlfabetica, LAMBDA t : t \in Nomes)

\* Row keys: the rows of a data table are 1..n; the row of table_metadata for
\* the k-th table name has key k; the rows of fk_metadata are 1..n, one per
\* foreign key.
Chaves == 1..(IF MaxLinhas > Cardinality(Nomes) THEN MaxLinhas ELSE Cardinality(Nomes))

\* The rows of controle_cargas for one table name: existe (the answer of SELECT
\* EXISTS), copias (how many rows carry the name) and the columns of the row.
SemControle ==
    [existe |-> FALSE, copias |-> 0, ultima_carga |-> 0, linhas_carregadas |-> 0]

\* The destination database before the first execution.
DestinoVazio ==
    [tem_controle |-> FALSE,
     tabelas |-> {},
     pk |-> {},
     fks |-> {},
     linhas |-> [t \in TabelasDestino |-> [k \in Chaves |-> 0]],
     controle |-> [t \in TabelasDestino |-> SemControle]]

VARIABLES
    tabelas,            \* input list of ordenar_tabelas_topologicamente
    metadados,          \* table name -> schema_json document
    tabelas_ordenadas,  \* the list returned
    fase,               \* "entrada" before the call, "ordenado" after it
    \* the source database (DuckDB)
    src_tabelas,        \* tables of the source
    src_linhas,         \* data table -> number of rows
    src_ts,             \* data table -> row -> execution after which it was added
    src_pk,             \* data table -> it has a primary key
    src_meta,           \* rows of table_metadata: table -> schema_json document
    src_json,           \* schema_json is a JSON column (the driver decodes it)
    conn_duckdb,        \* "aberta" or "fechada"
    \* the destination database (Postgres)
    dest,               \* committed state
    tx,                 \* state seen by the open transaction of processar_tabela
    txAbortada,         \* the open transaction is in the failed state
    destAbertas,        \* destination connections opened and not closed
    \* main
    execucao,           \* number of the execution; also its clock
    pc,                 \* position of main
    idx,                \* next position of tabelas_ordenadas
    retorno,            \* position of main after the current processar_tabela
    resultado,          \* "" while running, "ok" or "erro" at the end
    erro,               \* the exception that ended the execution, "" if none
    processadas,        \* tables processar_tabela was called for, this execution
    falhas,             \* failures of the environment so far
    \* processar_tabela
    nome_tabela,
    ppc,                \* position inside processar_tabela
    existe,
    dados,              \* rows read from the source
    pendentes,          \* rows of dados still to insert
    controleAntes,      \* control row of nome_tabela when the call started
    \* the process
    env_ok,             \* the required environment variables are all set
    arquivo_ok,         \* the DuckDB file of DUCKDB_PATH exists
    setup,              \* "pendente", "ok" (main reached the destination) or "falhou"
    status,             \* exit status of the process, -1 while it runs
    destInicio,         \* committed destination when the process started
    \* the type mappers
    tipo_duckdb,        \* the type name passed in, a sequence of characters
    tipo_postgres,      \* what mapear_tipo_duckdb_para_postgres_type returned
    valor,              \* the value passed to mapear_tipo_duckdb_para_postgres
    convertido,         \* what it returned, or the exception it raised
    chamada,            \* "" before the call, then the function called
    \* DuckDBPipeline
    modulo,             \* the file the class is taken from, "" when not in use
    catalogo,           \* the physical table of the database
    table_metadata,     \* the row of table_metadata for the table
    registros,          \* the rows of the table, a bag: a table has no order
    operacao,           \* the method last called, "" before the first call
    devolvido           \* what the last call returned, or that it raised

varsOrd == <<tabelas, metadados, tabelas_ordenadas, fase>>
varsFonte == <<src_tabelas, src_linhas, src_ts, src_pk, src_meta, src_json>>
varsDestino == <<dest, tx, txAbortada, destAbertas>>
varsMain == <<execucao, pc, idx, retorno, resultado, erro, processadas, falhas,
              conn_duckdb>>
varsTabela == <<nome_tabela, ppc, existe, dados, pendentes, controleAntes>>
varsProcesso == <<env_ok, arquivo_ok, setup, status, destInicio>>
varsTipos == <<tipo_duckdb, tipo_postgres, valor, convertido, chamada>>

varsPipeline == <<modulo, catalogo, table_metadata, registros, operacao, devolvido>>

vars == <<varsOrd, varsFonte, varsDestino, varsMain, varsTabela, varsProcesso,
          varsTipos, varsPipeline>>

\* Lines 303-311: the dependencies collected from one document. The try block
\* wraps the whole loop, so a malformed entry ends the loop and keeps what was
\* appended before it.
RECURSIVE ExtrairDependencias(_)
ExtrairDependencias(cols) ==
    IF cols = <<>> THEN <<>>
    ELSE IF Head(cols) = "malformado" THEN <<>>
    ELSE IF Head(cols) = "sem_fk" THEN ExtrairDependencias(Tail(cols))
    ELSE <<Head(cols)>> \o ExtrairDependencias(Tail(cols))

Dependencias(meta, tabela) ==
    IF tabela \in DOMAIN meta /\ meta[tabela].tipo = "objeto"
    THEN ExtrairDependencias(meta[tabela].cols)
    ELSE <<>>

\* Variant of AdicionarArestas with the edge reversed (tabela -> dep).
RECURSIVE AdicionarArestas_invertida(_, _, _, _)
AdicionarArestas_invertida(deps, tabela, tabs, g) ==
    IF deps = <<>> THEN g
    ELSE LET dep == Head(deps)
             g2 == IF dep \in Range(tabs)
                   THEN [grafo |-> [g.grafo EXCEPT ![tabela] = Append(@, dep)],
                         in_degree |-> [g.in_degree EXCEPT ![dep] = @ + 1]]
                   ELSE g
         IN AdicionarArestas_invertida(Tail(deps), tabela, tabs, g2)

\* Variant of AdicionarArestas without the test `dep in tabelas`.
RECURSIVE AdicionarArestas_semFiltro(_, _, _, _)
AdicionarArestas_semFiltro(deps, tabela, tabs, g) ==
    IF deps = <<>> THEN g
    ELSE LET dep == Head(deps)
             g2 == [grafo |-> [g.grafo EXCEPT ![dep] = Append(@, tabela)],
                    in_degree |-> [g.in_degree EXCEPT ![tabela] = @ + 1]]
         IN AdicionarArestas_semFiltro(Tail(deps), tabela, tabs, g2)

\* Variant of AdicionarArestas that skips a dependency of a table on itself.
RECURSIVE AdicionarArestas_semAuto(_, _, _, _)
AdicionarArestas_semAuto(deps, tabela, tabs, g) ==
    IF deps = <<>> THEN g
    ELSE LET dep == Head(deps)
             g2 == IF dep \in Range(tabs) /\ dep # tabela
                   THEN [grafo |-> [g.grafo EXCEPT ![dep] = Append(@, tabela)],
                         in_degree |-> [g.in_degree EXCEPT ![tabela] = @ + 1]]
                   ELSE g
         IN AdicionarArestas_semAuto(Tail(deps), tabela, tabs, g2)

\* Lines 312-315: one edge dep -> tabela per dependency that is in the list.
RECURSIVE AdicionarArestas(_, _, _, _)
AdicionarArestas(deps, tabela, tabs, g) ==
    IF deps = <<>> THEN g
    ELSE LET dep == Head(deps)
             g2 == IF dep \in Range(tabs)
                   THEN [grafo |-> [g.grafo EXCEPT ![dep] = Append(@, tabela)],
                         in_degree |-> [g.in_degree EXCEPT ![tabela] = @ + 1]]
                   ELSE g
         IN AdicionarArestas(Tail(deps), tabela, tabs, g2)

\* Lines 296-315: grafo and in_degree after the loop over the first i tables.
RECURSIVE ConstruirGrafo(_, _, _)
ConstruirGrafo(tabs, meta, i) ==
    IF i = 0
    THEN [grafo |-> [t \in Nomes \cup Range(tabs) |-> <<>>],
          in_degree |-> [t \in Nomes \cup Range(tabs) |-> 0]]
    ELSE AdicionarArestas(Dependencias(meta, tabs[i]), tabs[i], tabs,
                          ConstruirGrafo(tabs, meta, i - 1))

\* Lines 323-326: the loop over the neighbours of the node popped.
RECURSIVE Relaxar(_, _, _)
Relaxar(vizinhos, deg, fila) ==
    IF vizinhos = <<>> THEN [in_degree |-> deg, fila |-> fila]
    ELSE LET n == Head(vizinhos)
             d2 == [deg EXCEPT ![n] = @ - 1]
         IN Relaxar(Tail(vizinhos), d2, IF d2[n] = 0 THEN Append(fila, n) ELSE fila)

\* Lines 320-326: the while loop.
RECURSIVE Kahn(_, _, _, _)
Kahn(fila, ordenadas, deg, grafo) ==
    IF fila = <<>> THEN ordenadas
    ELSE LET r == Relaxar(grafo[Head(fila)], deg, Tail(fila))
         IN Kahn(r.fila, Append(ordenadas, Head(fila)), r.in_degree, grafo)

\* Variant of FilaInicial that seeds the queue in alphabetical order.
FilaInicial_alfabetica(tabs, deg) ==
    SelectSeq(OrdemAlfabetica, LAMBDA t : t \in Range(tabs) /\ deg[t] = 0)

\* Line 317: the tables without dependency, in input order.
FilaInicial(tabs, deg) == SelectSeq(tabs, LAMBDA t : deg[t] = 0)

\* Variant of the orderer without the length test: what Kahn's loop produced is
\* returned even when a cycle kept tables out of it.
ordenar_sem_fallback(tabs, meta) ==
    LET g == ConstruirGrafo(tabs, meta, Len(tabs))
    IN Kahn(FilaInicial(tabs, g.in_degree), <<>>, g.in_degree, g.grafo)

\* Variant of the orderer that, on a cycle, returns the tables Kahn's loop
\* ordered followed by the tables it left out.
ordenar_parcial_mais_resto(tabs, meta) ==
    LET g == ConstruirGrafo(tabs, meta, Len(tabs))
        ordenadas == Kahn(FilaInicial(tabs, g.in_degree), <<>>, g.in_degree, g.grafo)
    IN ordenadas \o SelectSeq(tabs, LAMBDA t : t \notin Range(ordenadas))

\* Lines 291-331.
ordenar_tabelas_topologicamente(tabs, meta) ==
    LET g == ConstruirGrafo(tabs, meta, Len(tabs))
        ordenadas == Kahn(FilaInicial(tabs, g.in_degree), <<>>, g.in_degree, g.grafo)
    IN IF Len(ordenadas) # Len(tabs) THEN tabs ELSE ordenadas

\* A Python value: its type and the text str() gives for it.
Py(py, v) == [py |-> py, v |-> v]

None == Py("NoneType", "None")

\* An exception raised instead of a value returned.
Raise(e) == Py("raise", e)

\* A dictionary key, a column or a table_metadata row that is not there.
Ausente == Py("ausente", "")

\* The columns a table of the pipeline can have.
ColunasPipeline == {"id", "cod"}

\* The database without the table, and table_metadata without its row.
SemTabela ==
    [existe |-> FALSE,
     colunas |-> [c \in ColunasPipeline |-> ""],
     primary_key |-> {}]

SemMetadados == [c \in ColunasPipeline |-> Ausente]

\* The pipeline before it is opened.
RepousoPipeline ==
    /\ modulo = ""
    /\ catalogo = SemTabela
    /\ table_metadata = SemMetadados
    /\ registros = EmptyBag
    /\ operacao = ""
    /\ devolvido = None

\* The mappers before any call.
RepousoTipos ==
    /\ tipo_duckdb = <<>>
    /\ tipo_postgres = <<>>
    /\ valor = None
    /\ convertido = None
    /\ chamada = ""

\* The orderer before any call.
RepousoOrd ==
    /\ tabelas = <<>>
    /\ metadados = [t \in Nomes |-> DocVazio]
    /\ tabelas_ordenadas = <<>>
    /\ fase = "entrada"

\* The loader's variables before the script runs.
InitRepouso ==
    /\ src_tabelas = {}
    /\ src_linhas = [t \in Nomes |-> 0]
    /\ src_ts = [t \in Nomes |-> [k \in Chaves |-> 0]]
    /\ src_pk = [t \in Nomes |-> FALSE]
    /\ src_meta = [t \in Nomes |-> DocVazio]
    /\ src_json = FALSE
    /\ conn_duckdb = "fechada"
    /\ dest = DestinoVazio
    /\ tx = DestinoVazio
    /\ txAbortada = FALSE
    /\ destAbertas = 0
    /\ execucao = 0
    /\ pc = "parado"
    /\ idx = 0
    /\ retorno = ""
    /\ resultado = ""
    /\ erro = ""
    /\ processadas = <<>>
    /\ falhas = 0
    /\ nome_tabela = ""
    /\ ppc = ""
    /\ existe = FALSE
    /\ dados = <<>>
    /\ pendentes = <<>>
    /\ controleAntes = SemControle
    /\ env_ok = TRUE
    /\ arquivo_ok = TRUE
    /\ setup = "pendente"
    /\ status = -1
    /\ destInicio = DestinoVazio

\* The orderer alone, on every input within the bounds.
InitOrd ==
    /\ tabelas \in Listas
    /\ \E n \in Reparticoes(Range(tabelas), MaxEntradas) :
          \E c \in DocsDe("clientes", n, Range(tabelas)),
             p \in DocsDe("pedidos", n, Range(tabelas)),
             i \in DocsDe("itens", n, Range(tabelas)) :
              metadados = [t \in Nomes |-> IF t = "clientes" THEN c
                                           ELSE IF t = "pedidos" THEN p ELSE i]
    /\ tabelas_ordenadas = <<>>
    /\ fase = "entrada"
    /\ InitRepouso
    /\ RepousoTipos
    /\ RepousoPipeline

Ordenar ==
    /\ fase = "entrada"
    /\ pc = "parado"
    /\ tabelas_ordenadas' = ordenar_tabelas_topologicamente(tabelas, metadados)
    /\ fase' = "ordenado"
    /\ UNCHANGED <<tabelas, metadados, varsFonte, varsProcesso, varsTipos, varsPipeline, varsDestino, varsMain, varsTabela>>

NextOrd == Ordenar

SpecOrd == InitOrd /\ [][NextOrd]_vars

(***************************************************************************)
(* Part 2: the source, the destination and the script.                     *)
(***************************************************************************)

\* Lines 344-345: SHOW TABLES.
MostrarTabelas == SelectSeq(OrdemAlfabetica, LAMBDA t : t \in src_tabelas)

\* Line 352: list.remove.
Remover(s, x) == SelectSeq(s, LAMBDA t : t # x)

\* Key of the row of table_metadata that describes table t.
ChaveDe(t) == CHOOSE k \in 1..Len(NomesEmOrdem) : NomesEmOrdem[k] = t

\* The foreign keys the documents of the source declare: fk_metadata holds one
\* row for each.
ChavesEstrangeirasFonte ==
    UNION {{<<t, i>> : i \in {j \in 1..Len(src_meta[t].cols) :
                                 src_meta[t].cols[j] \in Nomes}}
           : t \in {x \in Nomes : src_meta[x].tipo = "objeto"}}

\* Line 263: SELECT * FROM nome_tabela, as the keys of the rows read. The
\* statement has no WHERE clause: neither the control row nor a timestamp
\* column restricts the rows.
LinhasFonte(t) ==
    IF t = "table_metadata"
    THEN SelectSeq([k \in 1..Len(NomesEmOrdem) |-> k],
                   LAMBDA k : src_meta[NomesEmOrdem[k]].tipo # "ausente")
    ELSE IF t = "fk_metadata"
    THEN [k \in 1..Cardinality(ChavesEstrangeirasFonte) |-> k]
    ELSE [k \in 1..src_linhas[t] |-> k]

\* Lines 123-125, 146-148: pragma_table_info(...) WHERE pk > 0 finds columns.
\* table_metadata is created with table_name as its primary key, fk_metadata
\* with (table_name, column_name).
TemPKFonte(t) == IF t \in {"table_metadata", "fk_metadata"} THEN TRUE ELSE src_pk[t]

\* Lines 354-361: the metadados dictionary of main; the query raises, and the
\* dictionary stays empty, when the source has no table_metadata.
LerMetadados ==
    IF "table_metadata" \in src_tabelas
    THEN src_meta
    ELSE [t \in Nomes |-> DocVazio]

\* conn_supabase.commit(): a transaction in the failed state is rolled back by
\* the server instead, without an error.
Commit(committed, visto, abortada) == IF abortada THEN committed ELSE visto

\* Lines 115-132: CREATE TABLE with the PRIMARY KEY clause when the source
\* table has primary-key columns.
CriarTabela(db, t) ==
    [db EXCEPT !.tabelas = @ \cup {t},
               !.pk = IF TemPKFonte(t) THEN @ \cup {t} ELSE @]

\* Lines 151-162: ALTER TABLE ... ADD CONSTRAINT ... PRIMARY KEY between
\* SAVEPOINT and commit; rejected by the server when rows share a key, and then
\* rolled back to the savepoint.
AdicionarPK(db, t) ==
    IF t \in db.tabelas /\ \A k \in Chaves : db.linhas[t][k] <= 1
    THEN [db EXCEPT !.pk = @ \cup {t}]
    ELSE db

\* Lines 113-167 on the transaction's view: erro is the CREATE TABLE of a table
\* the destination already has.
PrepararTabela(db, t, ex) ==
    IF ~ex
    THEN IF t \in db.tabelas
         THEN [erro |-> "DuplicateTable", db |-> db]
         ELSE [erro |-> "", db |-> CriarTabela(db, t)]
    ELSE IF t \notin db.pk /\ TemPKFonte(t)
         THEN [erro |-> "", db |-> AdicionarPK(db, t)]
         ELSE [erro |-> "", db |-> db]

\* The rows of t already in the destination all have their referenced row
\* (row k of a table references row k of the table its foreign key names).
FKValida(db, t, r) ==
    \A k \in Chaves : db.linhas[t][k] > 0 => db.linhas[r][k] > 0

\* Lines 197-238: the ALTER TABLE of the foreign key of entry i is reached:
\* the entry has a foreign key, the constraint does not exist, the referenced
\* table exists and its referenced column has a primary key.
Tentar(db, t, cols, i) ==
    /\ cols[i] \in Nomes
    /\ <<t, i, cols[i]>> \notin db.fks
    /\ cols[i] \in db.tabelas
    /\ cols[i] \in db.pk

\* Lines 188-256: the loop over the column entries of the document. Every
\* constraint added is committed at once and a rejected one rolled back (the
\* server rejects the ALTER TABLE when rows of the table have no referenced
\* row, and for the entries of rej), so the loop maps one committed state to
\* the next; erro is the AttributeError of definicao.get on an entry that is
\* not an object (line 189 is outside any try of the loop).
RECURSIVE AplicarFKs(_, _, _, _, _)
AplicarFKs(db, t, cols, i, rej) ==
    IF i > Len(cols) THEN [erro |-> "", db |-> db]
    ELSE IF cols[i] = "malformado" THEN [erro |-> "AttributeError", db |-> db]
    ELSE IF \/ ~Tentar(db, t, cols, i)
            \/ i \in rej
            \/ ~FKValida(db, t, cols[i])
         THEN AplicarFKs(db, t, cols, i + 1, rej)
         ELSE AplicarFKs([db EXCEPT !.fks = @ \cup {<<t, i, cols[i]>>}], t, cols, i + 1, rej)

\* Lines 171-260 for a table other than table_metadata. abortada: the SELECT
\* on table_metadata failed (the destination has no such table); the error is
\* caught without a rollback, which leaves the transaction in the failed state.
\* erro: an exception leaves processar_tabela (json.loads on a value the driver
\* already decoded, or a malformed entry).
EtapaFK(db, t, rej) ==
    IF "table_metadata" \notin db.tabelas
    THEN [erro |-> "", abortada |-> TRUE, db |-> db]
    ELSE IF t \notin Nomes \/ db.linhas["table_metadata"][ChaveDe(t)] = 0
    THEN [erro |-> "", abortada |-> FALSE, db |-> db]
    ELSE IF src_json
    THEN [erro |-> "TypeError", abortada |-> FALSE, db |-> db]
    ELSE IF src_meta[t].tipo # "objeto"
    THEN [erro |-> "", abortada |-> FALSE, db |-> db]
    ELSE LET r == AplicarFKs(db, t, src_meta[t].cols, 1, rej)
         IN [erro |-> r.erro, abortada |-> FALSE, db |-> r.db]

\* The positions of the column entries of the document of t.
EntradasDe(t) == IF t \in Nomes THEN 1..Len(src_meta[t].cols) ELSE {}

\* Lines 249-256: the loop of the foreign-key step of t reaches the ALTER TABLE
\* of entry i, which the rows of the table do not rule out.
AlterAlcancado(db, t, i) ==
    /\ "table_metadata" \in db.tabelas
    /\ t \in Nomes
    /\ db.linhas["table_metadata"][ChaveDe(t)] > 0
    /\ ~src_json
    /\ src_meta[t].tipo = "objeto"
    /\ i \in 1..Len(src_meta[t].cols)
    /\ \A j \in 1..i : src_meta[t].cols[j] # "malformado"
    /\ Tentar(db, t, src_meta[t].cols, i)
    /\ FKValida(db, t, src_meta[t].cols[i])

\* Line 272: the error of the INSERT of row k, "" when the server accepts it:
\* the transaction is in the failed state, the text is not JSON for a JSON
\* column, the key exists under a primary key, or a foreign key of the table
\* has no referenced row.
ErroDoInsert(db, abortada, t, k) ==
    IF abortada THEN "InFailedSqlTransaction"
    ELSE IF /\ t = "table_metadata"
            /\ src_json
            /\ src_meta[NomesEmOrdem[k]].tipo = "invalido"
    THEN "InvalidTextRepresentation"
    ELSE IF t \in db.pk /\ db.linhas[t][k] > 0 THEN "UniqueViolation"
    ELSE IF \E f \in db.fks : f[1] = t /\ db.linhas[f[3]][k] = 0
    THEN "ForeignKeyViolation"
    ELSE ""

\* Line 272: the INSERT statement has no ON CONFLICT clause; an accepted row is
\* added to the table, also when an equal row is there.
InserirLinha(db, t, k) == [db EXCEPT !.linhas[t][k] = @ + 1]

\* Variant of GravarControle whose INSERT has no ON CONFLICT clause on a table
\* without key: every load adds a row for the table name.
GravarControle_semConflito(db, t, agora, n) ==
    [db EXCEPT !.controle[t] =
        [existe |-> TRUE, copias |-> @.copias + 1,
         ultima_carga |-> agora, linhas_carregadas |-> n]]

\* Lines 276-284: INSERT ... ON CONFLICT (tabela_nome) DO UPDATE, with
\* datetime.now() and len(dados): the row of the name is inserted, or the one
\* that is there (tabela_nome is the primary key, line 83) is updated.
GravarControle(db, t, agora, n) ==
    [db EXCEPT !.controle[t] =
        [existe |-> TRUE, copias |-> IF @.copias = 0 THEN 1 ELSE @.copias,
         ultima_carga |-> agora, linhas_carregadas |-> n]]

\* A document that is a JSON object with the given column entries.
Objeto(cols) == [tipo |-> "objeto", cols |-> cols]

DocInvalido == [tipo |-> "invalido", cols |-> <<>>]

\* The rows of table_metadata in the source of the loader, as the documents of
\* clientes and pedidos: no row at all, the foreign key pedidos -> clientes
\* with and without a row for clientes, the reverse foreign key, a cycle, a
\* text that is not JSON, an entry that is not an object, and two columns of
\* pedidos with a foreign key to clientes.
MetasFonte ==
    {[t \in Nomes |-> IF t = "clientes" THEN m[1]
                      ELSE IF t = "pedidos" THEN m[2] ELSE DocVazio] :
       m \in {<<DocVazio, DocVazio>>,
              <<Objeto(<<"sem_fk">>), Objeto(<<"clientes">>)>>,
              <<DocVazio, Objeto(<<"clientes">>)>>,
              <<Objeto(<<"pedidos">>), DocVazio>>,
              <<Objeto(<<"pedidos">>), Objeto(<<"clientes">>)>>,
              <<DocVazio, DocInvalido>>,
              <<Objeto(<<"sem_fk">>), Objeto(<<"clientes", "malformado">>)>>,
              <<Objeto(<<"sem_fk">>), Objeto(<<"clientes", "clientes">>)>>}}

\* The process starts: no line of the module has run. The source has no
\* metadata table, the table_metadata of app._duckdb (schema_json VARCHAR), or
\* the table_metadata and fk_metadata of duckdb_app and bootstrap_duckdb
\* (schema_json JSON). A process that cannot open the source never reads it:
\* one source stands for all.
Init ==
    /\ tabelas = <<>>
    /\ metadados = [t \in Nomes |-> DocVazio]
    /\ tabelas_ordenadas = <<>>
    /\ fase = "entrada"
    /\ src_tabelas \in {TabelasDados,
                        TabelasDados \cup {"table_metadata"},
                        TabelasDados \cup {"table_metadata", "fk_metadata"}}
    /\ src_linhas \in {f \in [Nomes -> 0..MaxLinhas] :
                         \A t \in Nomes \ TabelasDados : f[t] = 0}
    /\ src_ts = [t \in Nomes |-> [k \in Chaves |-> 0]]
    /\ src_pk \in {f \in [Nomes -> BOOLEAN] :
                     \A t \in Nomes \ TabelasDados : ~f[t]}
    /\ src_meta \in (IF "table_metadata" \in src_tabelas
                     THEN MetasFonte ELSE {[t \in Nomes |-> DocVazio]})
    /\ src_json = ("fk_metadata" \in src_tabelas)
    /\ conn_duckdb = "fechada"
    /\ dest = DestinoVazio
    /\ tx = DestinoVazio
    /\ txAbortada = FALSE
    /\ destAbertas = 0
    /\ execucao = 1
    /\ pc = "modulo"
    /\ idx = 0
    /\ retorno = ""
    /\ resultado = ""
    /\ erro = ""
    /\ processadas = <<>>
    /\ falhas = 0
    /\ nome_tabela = ""
    /\ ppc = ""
    /\ existe = FALSE
    /\ dados = <<>>
    /\ pendentes = <<>>
    /\ controleAntes = SemControle
    /\ env_ok \in BOOLEAN
    /\ arquivo_ok \in BOOLEAN
    /\ \/ env_ok /\ arquivo_ok
       \/ /\ src_tabelas = TabelasDados
          /\ src_linhas = [t \in Nomes |-> 0]
          /\ src_pk = [t \in Nomes |-> FALSE]
    /\ setup = "pendente"
    /\ status = -1
    /\ destInicio = DestinoVazio
    /\ RepousoTipos
    /\ RepousoPipeline

\* An exception leaves main: lines 369-371 log it and raise it again.
ErroEmMain(e) ==
    /\ pc' = "finally"
    /\ resultado' = "erro"
    /\ erro' = e

\* An exception leaves processar_tabela: the with block rolls the open
\* transaction back to the committed state d, lines 286-288 log and raise, and
\* main (which calls processar_tabela outside any try of its own loop) passes
\* the exception on.
Levantar(d, e) ==
    /\ dest' = d
    /\ tx' = d
    /\ txAbortada' = FALSE
    /\ ppc' = "falhou"
    /\ ErroEmMain(e)

\* processar_tabela(t) is called; main continues at r when it returns.
Chamar(t, r) ==
    /\ pc' = "tabela"
    /\ retorno' = r
    /\ nome_tabela' = t
    /\ ppc' = "conectar"
    /\ processadas' = Append(processadas, t)
    /\ controleAntes' = dest.controle[t]
    /\ existe' = FALSE
    /\ dados' = <<>>
    /\ pendentes' = <<>>

\* Lines 20-41: the module reads the configuration and opens the source. A
\* missing variable or a missing file raises at module level: main is never
\* called and the source is never opened.
Modulo_Carregar ==
    /\ pc = "modulo"
    /\ IF ~env_ok \/ ~arquivo_ok
       THEN /\ erro' = (IF ~env_ok THEN "ValueError" ELSE "FileNotFoundError")
            /\ resultado' = "erro"
            /\ setup' = "falhou"
            /\ pc' = "abortado"
            /\ UNCHANGED conn_duckdb
       ELSE /\ conn_duckdb' = "aberta"
            /\ pc' = "inicio"
            /\ UNCHANGED <<erro, resultado, setup>>
    /\ UNCHANGED <<varsOrd, varsFonte, varsDestino, execucao, idx, retorno, processadas,
                   falhas, varsTabela, env_ok, arquivo_ok, status, destInicio,
                   varsTipos, varsPipeline>>

\* Lines 337-341: the control table is created if absent; leaving the with
\* block commits, and does not close the connection.
Main_CriarControle ==
    /\ pc = "inicio"
    /\ dest' = [dest EXCEPT !.tem_controle = TRUE]
    /\ tx' = dest'
    /\ destAbertas' = destAbertas + 1
    /\ pc' = "listar"
    /\ setup' = "ok"
    /\ UNCHANGED <<env_ok, arquivo_ok, status, destInicio, varsTipos, varsPipeline>>
    /\ UNCHANGED <<varsOrd, varsFonte, txAbortada, execucao, idx, retorno, resultado,
                   erro, processadas, falhas, conn_duckdb, varsTabela>>

\* Variant of Main_ConectarFalha that goes on to list the tables after the
\* failed connection.
Main_ConectarFalha_continua ==
    /\ pc = "inicio"
    /\ falhas < MaxFalhas
    /\ falhas' = falhas + 1
    /\ setup' = "falhou"
    /\ pc' = "listar"
    /\ UNCHANGED <<env_ok, arquivo_ok, status, destInicio, varsTipos, varsPipeline>>
    /\ UNCHANGED <<varsOrd, varsFonte, varsDestino, execucao, idx, retorno, resultado,
                   erro, processadas, conn_duckdb, varsTabela>>

\* Lines 337-339: psycopg2.connect raises.
Main_ConectarFalha ==
    /\ pc = "inicio"
    /\ falhas < MaxFalhas
    /\ falhas' = falhas + 1
    /\ ErroEmMain("OperationalError")
    /\ setup' = "falhou"
    /\ UNCHANGED <<env_ok, arquivo_ok, status, destInicio, varsTipos, varsPipeline>>
    /\ UNCHANGED <<varsOrd, varsFonte, varsDestino, execucao, idx, retorno,
                   processadas, conn_duckdb, varsTabela>>

\* Variant of Main_ListarTabelas without the list.remove of line 352.
Main_ListarTabelas_semRemover ==
    /\ pc = "listar"
    /\ tabelas' = MostrarTabelas
    /\ IF "table_metadata" \in src_tabelas
       THEN Chamar("table_metadata", "metadados")
       ELSE /\ pc' = "metadados"
            /\ UNCHANGED <<retorno, processadas, varsTabela>>
    /\ UNCHANGED <<metadados, tabelas_ordenadas, fase, varsFonte, varsProcesso, varsTipos, varsPipeline,
                   varsDestino, execucao, idx, resultado, erro, falhas, conn_duckdb>>

\* Lines 344-352: SHOW TABLES; table_metadata, when present, is processed
\* first and taken out of the list.
Main_ListarTabelas ==
    /\ pc = "listar"
    /\ tabelas' = Remover(MostrarTabelas, "table_metadata")
    /\ IF "table_metadata" \in src_tabelas
       THEN Chamar("table_metadata", "metadados")
       ELSE /\ pc' = "metadados"
            /\ UNCHANGED <<retorno, processadas, varsTabela>>
    /\ UNCHANGED <<metadados, tabelas_ordenadas, fase, varsFonte, varsProcesso, varsTipos, varsPipeline, varsDestino,
                   execucao, idx, resultado, erro, falhas, conn_duckdb>>

\* Line 344: the query on the source raises.
Main_ListarFalha ==
    /\ pc = "listar"
    /\ falhas < MaxFalhas
    /\ falhas' = falhas + 1
    /\ ErroEmMain("duckdb.Error")
    /\ UNCHANGED <<varsOrd, varsFonte, varsProcesso, varsTipos, varsPipeline, varsDestino, execucao, idx, retorno,
                   processadas, conn_duckdb, varsTabela>>

\* Variant of Main_Ordenar that processes the tables in the order of SHOW
\* TABLES.
Main_Ordenar_semOrdenar ==
    /\ pc = "metadados"
    /\ metadados' = LerMetadados
    /\ tabelas_ordenadas' = tabelas
    /\ fase' = "ordenado"
    /\ idx' = 1
    /\ pc' = "laco"
    /\ UNCHANGED <<tabelas, varsFonte, varsProcesso, varsTipos, varsPipeline, varsDestino, execucao, retorno,
                   resultado, erro, processadas, falhas, conn_duckdb, varsTabela>>

\* Lines 355-364: the metadata is read from the source and the tables ordered.
Main_Ordenar ==
    /\ pc = "metadados"
    /\ metadados' = LerMetadados
    /\ tabelas_ordenadas' = ordenar_tabelas_topologicamente(tabelas, metadados')
    /\ fase' = "ordenado"
    /\ idx' = 1
    /\ pc' = "laco"
    /\ UNCHANGED <<tabelas, varsFonte, varsProcesso, varsTipos, varsPipeline, varsDestino, execucao, retorno, resultado,
                   erro, processadas, falhas, conn_duckdb, varsTabela>>

\* Lines 367-368: the loop over the ordered tables.
Main_ProximaTabela ==
    /\ pc = "laco"
    /\ IF idx <= Len(tabelas_ordenadas)
       THEN /\ Chamar(tabelas_ordenadas[idx], "laco")
            /\ idx' = idx + 1
            /\ UNCHANGED resultado
       ELSE /\ pc' = "finally"
            /\ resultado' = "ok"
            /\ UNCHANGED <<idx, retorno, processadas, varsTabela>>
    /\ UNCHANGED <<varsOrd, varsFonte, varsProcesso, varsTipos, varsPipeline, varsDestino, execucao, erro, falhas, conn_duckdb>>

\* Lines 372-374: the finally block closes the source connection, and nothing
\* else.
Main_Finalizar ==
    /\ pc = "finally"
    /\ conn_duckdb' = "fechada"
    /\ pc' = "fim"
    /\ UNCHANGED <<varsOrd, varsFonte, varsProcesso, varsTipos, varsPipeline, varsDestino, execucao, idx, retorno, resultado,
                   erro, processadas, falhas, varsTabela>>

\* Lines 98-111: connection, the test on the control row, DESCRIBE.
P_Conectar ==
    /\ pc = "tabela" /\ ppc = "conectar"
    /\ destAbertas' = destAbertas + 1
    /\ tx' = dest
    /\ txAbortada' = FALSE
    /\ existe' = dest.controle[nome_tabela].existe
    /\ ppc' = "preparar"
    /\ UNCHANGED <<varsOrd, varsFonte, varsProcesso, varsTipos, varsPipeline, dest, varsMain, nome_tabela, dados, pendentes,
                   controleAntes>>

\* Lines 98-100: psycopg2.connect raises.
P_ConectarFalha ==
    /\ pc = "tabela" /\ ppc = "conectar"
    /\ falhas < MaxFalhas
    /\ falhas' = falhas + 1
    /\ Levantar(dest, "OperationalError")
    /\ UNCHANGED <<varsOrd, varsFonte, varsProcesso, varsTipos, varsPipeline, destAbertas, execucao, idx, retorno, processadas,
                   conn_duckdb, nome_tabela, existe, dados, pendentes, controleAntes>>

\* Line 110: DESCRIBE raises (the schema of the table cannot be read).
P_DescreverFalha ==
    /\ pc = "tabela" /\ ppc = "conectar"
    /\ falhas < MaxFalhas
    /\ falhas' = falhas + 1
    /\ destAbertas' = destAbertas + 1
    /\ Levantar(dest, "CatalogException")
    /\ UNCHANGED <<varsOrd, varsFonte, varsProcesso, varsTipos, varsPipeline, execucao, idx, retorno, processadas,
                   conn_duckdb, nome_tabela, existe, dados, pendentes, controleAntes>>

\* Lines 113-167: the table is created when it has no control row; otherwise a
\* missing primary key is added. Both paths commit.
P_Preparar ==
    /\ pc = "tabela" /\ ppc = "preparar"
    /\ LET r == PrepararTabela(tx, nome_tabela, existe)
       IN IF r.erro # ""
          THEN Levantar(dest, r.erro)
          ELSE /\ dest' = Commit(dest, r.db, txAbortada)
               /\ tx' = dest'
               /\ ppc' = "fk"
               /\ UNCHANGED <<txAbortada, pc, resultado, erro>>
    /\ UNCHANGED <<varsOrd, varsFonte, varsProcesso, varsTipos, varsPipeline, destAbertas, execucao, idx, retorno, processadas,
                   falhas, conn_duckdb,
                   nome_tabela, existe, dados, pendentes, controleAntes>>

\* Variant of P_ChavePrimariaFalha in which the rejected ALTER TABLE leaves
\* processar_tabela as an exception.
P_ChavePrimariaFalha_levanta ==
    /\ pc = "tabela" /\ ppc = "preparar"
    /\ existe
    /\ nome_tabela \notin tx.pk
    /\ TemPKFonte(nome_tabela)
    /\ falhas < MaxFalhas
    /\ falhas' = falhas + 1
    /\ Levantar(dest, "OperationalError")
    /\ UNCHANGED <<varsOrd, varsFonte, varsProcesso, varsTipos, varsPipeline, destAbertas, execucao, idx, retorno,
                   processadas, conn_duckdb, nome_tabela, existe, dados, pendentes,
                   controleAntes>>

\* Lines 135-162: the table has a control row and no primary key in the
\* destination, the source has one, and the server rejects the ALTER TABLE for
\* a reason of its own (a lock that times out, a constraint name in use). The
\* except block rolls back to the savepoint and commits; pk_definida is False.
P_ChavePrimariaFalha ==
    /\ pc = "tabela" /\ ppc = "preparar"
    /\ existe
    /\ nome_tabela \notin tx.pk
    /\ TemPKFonte(nome_tabela)
    /\ falhas < MaxFalhas
    /\ falhas' = falhas + 1
    /\ dest' = Commit(dest, tx, txAbortada)
    /\ tx' = dest'
    /\ ppc' = "fk"
    /\ UNCHANGED <<varsOrd, varsFonte, varsProcesso, varsTipos, varsPipeline, txAbortada, destAbertas, execucao,
                   idx, retorno, resultado, erro, pc, processadas, conn_duckdb,
                   nome_tabela, existe, dados, pendentes, controleAntes>>

\* Lines 169-260: the foreign keys of the table's document in the destination.
P_ChavesEstrangeiras ==
    /\ pc = "tabela" /\ ppc = "fk"
    /\ IF nome_tabela = "table_metadata"
       THEN /\ ppc' = "ler"
            /\ UNCHANGED <<dest, tx, txAbortada, pc, resultado, erro>>
       ELSE LET r == EtapaFK(tx, nome_tabela, {})
            IN IF r.erro # ""
               THEN Levantar(r.db, r.erro)
               ELSE /\ dest' = r.db
                    /\ tx' = r.db
                    /\ txAbortada' = r.abortada
                    /\ ppc' = "ler"
                    /\ UNCHANGED <<pc, resultado, erro>>
    /\ UNCHANGED <<varsOrd, varsFonte, varsProcesso, varsTipos, varsPipeline, destAbertas, execucao, idx, retorno, processadas,
                   falhas, conn_duckdb, nome_tabela, existe, dados, pendentes,
                   controleAntes>>

\* Variant of P_ChaveEstrangeiraFalha in which the rejected ALTER TABLE leaves
\* processar_tabela as an exception.
P_ChaveEstrangeiraFalha_levanta ==
    /\ pc = "tabela" /\ ppc = "fk"
    /\ nome_tabela # "table_metadata"
    /\ falhas < MaxFalhas
    /\ falhas' = falhas + 1
    /\ \E i \in EntradasDe(nome_tabela) : AlterAlcancado(tx, nome_tabela, i)
    /\ Levantar(dest, "DatatypeMismatch")
    /\ UNCHANGED <<varsOrd, varsFonte, varsProcesso, varsTipos, varsPipeline, destAbertas, execucao, idx,
                   retorno, processadas, conn_duckdb, nome_tabela, existe, dados,
                   pendentes, controleAntes>>

\* Lines 249-256: the server rejects the ALTER TABLE of one foreign key for a
\* reason of its own (column types that do not match, a lock that times out).
\* The except block logs and rolls back; the loop goes on with the entries
\* that follow.
P_ChaveEstrangeiraFalha ==
    /\ pc = "tabela" /\ ppc = "fk"
    /\ nome_tabela # "table_metadata"
    /\ falhas < MaxFalhas
    /\ falhas' = falhas + 1
    /\ \E i \in EntradasDe(nome_tabela) :
          /\ AlterAlcancado(tx, nome_tabela, i)
          /\ LET r == EtapaFK(tx, nome_tabela, {i})
             IN IF r.erro # ""
                THEN Levantar(r.db, r.erro)
                ELSE /\ dest' = r.db
                     /\ tx' = r.db
                     /\ txAbortada' = r.abortada
                     /\ ppc' = "ler"
                     /\ UNCHANGED <<pc, resultado, erro>>
    /\ UNCHANGED <<varsOrd, varsFonte, varsProcesso, varsTipos, varsPipeline, destAbertas, execucao, idx,
                   retorno, processadas, conn_duckdb, nome_tabela, existe, dados,
                   pendentes, controleAntes>>

\* Variant of P_LerDados that writes and commits the control row before the
\* rows are inserted.
P_LerDados_gravaControle ==
    /\ pc = "tabela" /\ ppc = "ler"
    /\ dados' = LinhasFonte(nome_tabela)
    /\ pendentes' = dados'
    /\ ppc' = "inserir"
    /\ dest' = GravarControle(dest, nome_tabela, execucao, Len(dados'))
    /\ tx' = GravarControle(tx, nome_tabela, execucao, Len(dados'))
    /\ UNCHANGED <<varsOrd, varsFonte, varsProcesso, varsTipos, varsPipeline, txAbortada, destAbertas, varsMain, nome_tabela,
                   existe, controleAntes>>

\* Lines 263-265: every row of the source table is read.
P_LerDados ==
    /\ pc = "tabela" /\ ppc = "ler"
    /\ dados' = LinhasFonte(nome_tabela)
    /\ pendentes' = dados'
    /\ ppc' = "inserir"
    /\ UNCHANGED <<varsOrd, varsFonte, varsProcesso, varsTipos, varsPipeline, varsDestino, varsMain, nome_tabela, existe,
                   controleAntes>>

\* Variant of P_InserirLinha on a connection in autocommit mode: every accepted
\* row is committed at once.
P_InserirLinha_autocommit ==
    /\ pc = "tabela" /\ ppc = "inserir"
    /\ pendentes # <<>>
    /\ IF ErroDoInsert(tx, txAbortada, nome_tabela, Head(pendentes)) # ""
       THEN /\ Levantar(dest, ErroDoInsert(tx, txAbortada, nome_tabela, Head(pendentes)))
            /\ UNCHANGED pendentes
       ELSE /\ tx' = InserirLinha(tx, nome_tabela, Head(pendentes))
            /\ dest' = tx'
            /\ pendentes' = Tail(pendentes)
            /\ UNCHANGED <<txAbortada, ppc, pc, resultado, erro>>
    /\ UNCHANGED <<varsOrd, varsFonte, varsProcesso, varsTipos, varsPipeline, destAbertas, execucao, idx,
                   retorno, processadas, falhas, conn_duckdb, nome_tabela, existe, dados,
                   controleAntes>>

\* Lines 267-272: one row is converted and inserted; a rejected INSERT raises.
P_InserirLinha ==
    /\ pc = "tabela" /\ ppc = "inserir"
    /\ pendentes # <<>>
    /\ IF ErroDoInsert(tx, txAbortada, nome_tabela, Head(pendentes)) # ""
       THEN /\ Levantar(dest, ErroDoInsert(tx, txAbortada, nome_tabela, Head(pendentes)))
            /\ UNCHANGED pendentes
       ELSE /\ tx' = InserirLinha(tx, nome_tabela, Head(pendentes))
            /\ pendentes' = Tail(pendentes)
            /\ UNCHANGED <<dest, txAbortada, ppc, pc, resultado, erro>>
    /\ UNCHANGED <<varsOrd, varsFonte, varsProcesso, varsTipos, varsPipeline, destAbertas, execucao, idx, retorno, processadas,
                   falhas, conn_duckdb, nome_tabela, existe, dados, controleAntes>>

\* Lines 268-271: mapear_tipo_duckdb_para_postgres raises on a value of the row.
P_ConverterFalha ==
    /\ pc = "tabela" /\ ppc = "inserir"
    /\ pendentes # <<>>
    /\ falhas < MaxFalhas
    /\ falhas' = falhas + 1
    /\ Levantar(dest, "ValueError")
    /\ UNCHANGED <<varsOrd, varsFonte, varsProcesso, varsTipos, varsPipeline, destAbertas, execucao, idx, retorno, processadas,
                   conn_duckdb, nome_tabela, existe, dados, pendentes, controleAntes>>

\* Variant of P_CommitDados without the commit of line 273: the rows stay in
\* the open transaction when the control row is written.
P_CommitDados_semCommit ==
    /\ pc = "tabela" /\ ppc = "inserir"
    /\ pendentes = <<>>
    /\ ppc' = "controle"
    /\ UNCHANGED <<varsOrd, varsFonte, varsProcesso, varsTipos, varsPipeline, varsDestino, varsMain, nome_tabela, existe, dados,
                   pendentes, controleAntes>>

\* Line 273: the rows are committed.
P_CommitDados ==
    /\ pc = "tabela" /\ ppc = "inserir"
    /\ pendentes = <<>>
    /\ dest' = Commit(dest, tx, txAbortada)
    /\ tx' = dest'
    /\ txAbortada' = FALSE
    /\ ppc' = "controle"
    /\ UNCHANGED <<varsOrd, varsFonte, varsProcesso, varsTipos, varsPipeline, destAbertas, varsMain, nome_tabela, existe, dados,
                   pendentes, controleAntes>>

\* Lines 276-284: the control row is written in the open transaction.
P_AtualizarControle ==
    /\ pc = "tabela" /\ ppc = "controle"
    /\ tx' = GravarControle(tx, nome_tabela, execucao, Len(dados))
    /\ ppc' = "commit_controle"
    /\ UNCHANGED <<varsOrd, varsFonte, varsProcesso, varsTipos, varsPipeline, dest, txAbortada, destAbertas, varsMain,
                   nome_tabela, existe, dados, pendentes, controleAntes>>

\* Lines 276-284: the statement raises (connection lost).
P_ControleFalha ==
    /\ pc = "tabela" /\ ppc = "controle"
    /\ falhas < MaxFalhas
    /\ falhas' = falhas + 1
    /\ Levantar(dest, "OperationalError")
    /\ UNCHANGED <<varsOrd, varsFonte, varsProcesso, varsTipos, varsPipeline, destAbertas, execucao, idx, retorno, processadas,
                   conn_duckdb, nome_tabela, existe, dados, pendentes, controleAntes>>

\* Line 285 and the end of the with blocks: the control row is committed and
\* processar_tabela returns; the connection is not closed.
P_CommitControle ==
    /\ pc = "tabela" /\ ppc = "commit_controle"
    /\ dest' = Commit(dest, tx, txAbortada)
    /\ tx' = dest'
    /\ ppc' = "retornou"
    /\ pc' = retorno
    /\ UNCHANGED <<varsOrd, varsFonte, varsProcesso, varsTipos, varsPipeline, txAbortada, destAbertas, execucao, idx, retorno,
                   resultado, erro, processadas, falhas, conn_duckdb, nome_tabela,
                   existe, dados, pendentes, controleAntes>>

\* Lines 377-378: the process ends; an exception that left main, or the
\* module, gives exit status 1.
Processo_Sair ==
    /\ pc \in {"fim", "abortado"}
    /\ status' = (IF erro = "" THEN 0 ELSE 1)
    /\ pc' = "saiu"
    /\ UNCHANGED <<varsOrd, varsFonte, varsDestino, execucao, idx, retorno, resultado,
                   erro, processadas, falhas, conn_duckdb, varsTabela,
                   env_ok, arquivo_ok, setup, destInicio, varsTipos, varsPipeline>>

\* The script is started again (a new process). Between two executions the
\* source is unchanged (t = ""), or the table that changes has received a row
\* or a primary key.
NovaExecucao ==
    /\ pc = "saiu"
    /\ execucao < MaxExecucoes
    /\ \E t \in TabelasQueMudam \cup {""}, mudanca \in {"linha", "pk"} :
          IF t = ""
          THEN /\ mudanca = "linha"
               /\ UNCHANGED <<src_linhas, src_ts, src_pk>>
          ELSE IF mudanca = "linha"
          THEN /\ src_linhas[t] < MaxLinhas
               /\ src_linhas' = [src_linhas EXCEPT ![t] = @ + 1]
               /\ src_ts' = [src_ts EXCEPT ![t][src_linhas[t] + 1] = execucao]
               /\ UNCHANGED src_pk
          ELSE /\ ~src_pk[t]
               /\ src_pk' = [src_pk EXCEPT ![t] = TRUE]
               /\ UNCHANGED <<src_linhas, src_ts>>
    /\ execucao' = execucao + 1
    /\ conn_duckdb' = "fechada"
    /\ destAbertas' = 0
    /\ pc' = "modulo"
    /\ idx' = 0
    /\ retorno' = ""
    /\ resultado' = ""
    /\ erro' = ""
    /\ processadas' = <<>>
    /\ nome_tabela' = ""
    /\ ppc' = ""
    /\ existe' = FALSE
    /\ dados' = <<>>
    /\ pendentes' = <<>>
    /\ controleAntes' = SemControle
    /\ tabelas' = <<>>
    /\ metadados' = [t \in Nomes |-> DocVazio]
    /\ tabelas_ordenadas' = <<>>
    /\ fase' = "entrada"
    /\ tx' = dest
    /\ setup' = "pendente"
    /\ status' = -1
    /\ destInicio' = dest
    /\ UNCHANGED <<src_tabelas, src_meta, src_json, dest, txAbortada, falhas,
                   env_ok, arquivo_ok, varsTipos, varsPipeline>>

Next ==
    \/ Modulo_Carregar
    \/ Main_CriarControle
    \/ Main_ConectarFalha
    \/ Main_ListarTabelas
    \/ Main_ListarFalha
    \/ Main_Ordenar
    \/ Main_ProximaTabela
    \/ Main_Finalizar
    \/ P_Conectar
    \/ P_ConectarFalha
    \/ P_DescreverFalha
    \/ P_Preparar
    \/ P_ChavePrimariaFalha
    \/ P_ChavesEstrangeiras
    \/ P_ChaveEstrangeiraFalha
    \/ P_LerDados
    \/ P_InserirLinha
    \/ P_ConverterFalha
    \/ P_CommitDados
    \/ P_AtualizarControle
    \/ P_ControleFalha
    \/ P_CommitControle
    \/ Processo_Sair
    \/ NovaExecucao

Spec == Init /\ [][Next]_vars

(***************************************************************************)
(* Part 3: the type mappers.                                               *)
(***************************************************************************)

\* Number of fragments a type name of the model is made of.
MaxFragmentos == 2

Minusculas == <<"a", "b", "c", "d", "e", "f", "g", "h", "i", "j", "k", "l", "m",
                "n", "o", "p", "q", "r", "s", "t", "u", "v", "w", "x", "y", "z">>

Maiusculas == <<"A", "B", "C", "D", "E", "F", "G", "H", "I", "J", "K", "L", "M",
                "N", "O", "P", "Q", "R", "S", "T", "U", "V", "W", "X", "Y", "Z">>

\* str.upper and str.lower on one character and on a string.
UpperChar(c) ==
    IF \E i \in 1..Len(Minusculas) : Minusculas[i] = c
    THEN Maiusculas[CHOOSE i \in 1..Len(Minusculas) : Minusculas[i] = c]
    ELSE c

LowerChar(c) ==
    IF \E i \in 1..Len(Maiusculas) : Maiusculas[i] = c
    THEN Minusculas[CHOOSE i \in 1..Len(Maiusculas) : Maiusculas[i] = c]
    ELSE c

upper(s) == [i \in 1..Len(s) |-> UpperChar(s[i])]

lower(s) == [i \in 1..Len(s) |-> LowerChar(s[i])]

\* The string literals of the two mappers.
TINYINT == <<"T", "I", "N", "Y", "I", "N", "T">>
SMALLINT == <<"S", "M", "A", "L", "L", "I", "N", "T">>
BLOB == <<"B", "L", "O", "B">>
BYTEA == <<"B", "Y", "T", "E", "A">>
DOUBLE == <<"D", "O", "U", "B", "L", "E">>
DOUBLE_PRECISION == DOUBLE \o <<" ", "P", "R", "E", "C", "I", "S", "I", "O", "N">>
DECIMAL == <<"D", "E", "C", "I", "M", "A", "L">>
NUMERIC == <<"N", "U", "M", "E", "R", "I", "C">>
VARCHAR == <<"V", "A", "R", "C", "H", "A", "R">>
TEXT == <<"T", "E", "X", "T">>
TIPO_BOOLEAN == <<"B", "O", "O", "L", "E", "A", "N">>
INTEGER == <<"I", "N", "T", "E", "G", "E", "R">>
BIGINT == <<"B", "I", "G", "I", "N", "T">>
FLOAT == <<"F", "L", "O", "A", "T">>
REAL == <<"R", "E", "A", "L">>
TIMESTAMP == <<"T", "I", "M", "E", "S", "T", "A", "M", "P">>
DATETIME == <<"D", "A", "T", "E", "T", "I", "M", "E">>

\* Python's str.find from position i on: the first position at which k occurs
\* in s, 0 when there is none.
RECURSIVE find(_, _, _)
find(s, k, i) ==
    IF i + Len(k) - 1 > Len(s) THEN 0
    ELSE IF SubSeq(s, i, i + Len(k) - 1) = k THEN i
    ELSE find(s, k, i + 1)

\* Python's `k in s`.
contem(s, k) == find(s, k, 1) # 0

\* Python's s.split(k)[1] for a string that contains k: the text between the
\* first occurrence of k and the next one after it, or the end of the string.
split_1(s, k) ==
    LET i == find(s, k, 1)
        j == find(s, k, i + Len(k))
    IN SubSeq(s, i + Len(k), IF j = 0 THEN Len(s) ELSE j - 1)

\* Variant of mapear_tipo_duckdb_para_postgres_type that tests DECIMAL before
\* the other keywords.
mapear_tipo_decimal_primeiro(tipo) ==
    LET t == upper(tipo)
    IN IF contem(t, DECIMAL) THEN NUMERIC \o split_1(t, DECIMAL)
       ELSE IF contem(t, TINYINT) THEN SMALLINT
       ELSE IF contem(t, BLOB) THEN BYTEA
       ELSE IF contem(t, DOUBLE) THEN DOUBLE_PRECISION
       ELSE t

\* Lines 44-55.
mapear_tipo_duckdb_para_postgres_type(tipo) ==
    LET t == upper(tipo)
    IN IF contem(t, TINYINT) THEN SMALLINT
       ELSE IF contem(t, BLOB) THEN BYTEA
       ELSE IF contem(t, DOUBLE) THEN DOUBLE_PRECISION
       ELSE IF contem(t, DECIMAL) THEN NUMERIC \o split_1(t, DECIMAL)
       ELSE t

\* The fragments the type names of the model are made of: the keywords in
\* upper case, in lower case and capitalised, a precision, a blank and a
\* letter.
Palavras == {TINYINT, BLOB, DOUBLE, DECIMAL, VARCHAR, INTEGER, TIMESTAMP, TIPO_BOOLEAN}

Capitalizada(s) == <<s[1]>> \o lower(Tail(s))

Fragmentos ==
    Palavras \cup {lower(s) : s \in Palavras} \cup {Capitalizada(DECIMAL)}
        \cup {<<"(", "1", "0", ",", "2", ")">>, <<" ">>, <<"u">>}

RECURSIVE Concatenacoes(_)
Concatenacoes(n) ==
    IF n = 0 THEN {<<>>}
    ELSE LET menores == Concatenacoes(n - 1)
         IN menores \cup {s \o f : s \in menores, f \in Fragmentos}

\* The type names of the model.
NomesDeTipo == Concatenacoes(MaxFragmentos)

\* The values a column of the source can hold in the model: what the DuckDB
\* driver returns for NULL, integer, text, boolean, floating-point, binary and
\* timestamp columns (the last one with a time zone).
Valores ==
    {None,
     Py("int", "0"), Py("int", "1"),
     Py("str", ""), Py("str", "1"), Py("str", "abc"),
     Py("bool", "True"),
     Py("float", "1.5"),
     Py("bytes", "b'x'"),
     Py("datetime", "2024-01-01 00:00:00"),
     Py("datetime", "2024-01-01 00:00:00.500000"),
     Py("datetime", "2024-01-01 00:00:00+00:00")}

\* str(valor).
py_str(x) == Py("str", x.v)

\* bool(valor): the empty and the zero values are false.
py_bool(x) ==
    IF x \in {None, Py("int", "0"), Py("str", ""), Py("bool", "False"),
              Py("float", "0.0"), Py("bytes", "b''")}
    THEN Py("bool", "False")
    ELSE Py("bool", "True")

\* int(valor).
py_int(x) ==
    IF x.py = "int" THEN x
    ELSE IF x.py = "bool" THEN Py("int", IF x.v = "True" THEN "1" ELSE "0")
    ELSE IF x = Py("float", "1.5") THEN Py("int", "1")
    ELSE IF x = Py("str", "1") THEN Py("int", "1")
    ELSE IF x.py \in {"str", "bytes"} THEN Raise("ValueError")
    ELSE Raise("TypeError")

\* float(valor).
py_float(x) ==
    IF x.py = "float" THEN x
    ELSE IF x.py = "int" THEN Py("float", IF x.v = "1" THEN "1.0" ELSE "0.0")
    ELSE IF x.py = "bool" THEN Py("float", IF x.v = "True" THEN "1.0" ELSE "0.0")
    ELSE IF x = Py("str", "1") THEN Py("float", "1.0")
    ELSE IF x.py \in {"str", "bytes"} THEN Raise("ValueError")
    ELSE Raise("TypeError")

\* bytes(valor): an integer gives that many zero bytes, a string has no
\* encoding.
py_bytes(x) ==
    IF x.py = "bytes" THEN x
    ELSE IF x \in {Py("int", "1"), Py("bool", "True")} THEN Py("bytes", "b'\\x00'")
    ELSE IF x \in {Py("int", "0"), Py("bool", "False")} THEN Py("bytes", "b''")
    ELSE Raise("TypeError")

\* datetime.strptime(texto, "%Y-%m-%d %H:%M:%S.%f").
strptime_f(texto) ==
    IF texto = "2024-01-01 00:00:00.500000"
    THEN Py("datetime", texto)
    ELSE Raise("ValueError")

\* datetime.strptime(texto, "%Y-%m-%d %H:%M:%S").
strptime_s(texto) ==
    IF texto = "2024-01-01 00:00:00"
    THEN Py("datetime", texto)
    ELSE Raise("ValueError")

\* Lines 71-75: the fractional-seconds pattern, then the whole-seconds one.
converter_timestamp(x) ==
    IF strptime_f(py_str(x).v).py # "raise"
    THEN strptime_f(py_str(x).v)
    ELSE strptime_s(py_str(x).v)

\* Lines 61-76: the dispatch on the type name, without the test of line 59.
despachar(x, tipo) ==
    IF contem(tipo, VARCHAR) \/ contem(tipo, TEXT) THEN py_str(x)
    ELSE IF contem(tipo, TIPO_BOOLEAN) THEN py_bool(x)
    ELSE IF contem(tipo, INTEGER) \/ contem(tipo, BIGINT) \/ contem(tipo, TINYINT)
    THEN py_int(x)
    ELSE IF \/ contem(tipo, DECIMAL) \/ contem(tipo, FLOAT)
            \/ contem(tipo, DOUBLE) \/ contem(tipo, REAL)
    THEN py_float(x)
    ELSE IF contem(tipo, BLOB) THEN py_bytes(x)
    ELSE IF contem(tipo, TIMESTAMP) \/ contem(tipo, DATETIME)
    THEN converter_timestamp(x)
    ELSE x

\* Variant of mapear_tipo_duckdb_para_postgres without the test for None.
mapear_valor_sem_teste_de_None(x, tipo) == despachar(x, tipo)

\* Lines 58-76.
mapear_tipo_duckdb_para_postgres(x, tipo) ==
    IF x = None THEN None ELSE despachar(x, tipo)

\* mapear_tipo_duckdb_para_postgres_type alone, on every type name of the
\* model.
InitTipo ==
    /\ tipo_duckdb \in NomesDeTipo
    /\ tipo_postgres = <<>>
    /\ valor = None
    /\ convertido = None
    /\ chamada = ""
    /\ RepousoOrd
    /\ InitRepouso
    /\ RepousoPipeline

MapearTipo ==
    /\ chamada = ""
    /\ pc = "parado"
    /\ tipo_postgres' = mapear_tipo_duckdb_para_postgres_type(tipo_duckdb)
    /\ chamada' = "mapear_tipo_duckdb_para_postgres_type"
    /\ UNCHANGED <<varsOrd, varsFonte, varsProcesso, varsDestino, varsMain, varsTabela,
                   varsPipeline,
                   tipo_duckdb, valor, convertido>>

NextTipo == MapearTipo

SpecTipo == InitTipo /\ [][NextTipo]_vars

\* mapear_tipo_duckdb_para_postgres alone, on every value and type name of the
\* model.
InitValor ==
    /\ tipo_duckdb \in NomesDeTipo
    /\ tipo_postgres = <<>>
    /\ valor \in Valores
    /\ convertido = None
    /\ chamada = ""
    /\ RepousoOrd
    /\ InitRepouso
    /\ RepousoPipeline

MapearValor ==
    /\ chamada = ""
    /\ pc = "parado"
    /\ convertido' = mapear_tipo_duckdb_para_postgres(valor, tipo_duckdb)
    /\ chamada' = "mapear_tipo_duckdb_para_postgres"
    /\ UNCHANGED <<varsOrd, varsFonte, varsProcesso, varsDestino, varsMain, varsTabela,
                   varsPipeline,
                   tipo_duckdb, tipo_postgres, valor>>

NextValor == MapearValor

SpecValor == InitValor /\ [][NextValor]_vars

(***************************************************************************)
(* Part 4: DuckDBPipeline of the Streamlit application, as written in      *)
(* app/duckdb_app.py and in app._duckdb.py: create_table_dynamic and       *)
(* insert_data on one table of a DuckDB database.                          *)
(***************************************************************************)
Modulos == {"app/duckdb_app.py", "app._duckdb.py"}

\* Number of rows the table of the pipeline can hold.
MaxRegistros == 2

\* The data types the caller gives a column of each name; a field without a
\* name has the default.
TiposDaColuna ==
    [c \in ColunasPipeline \cup {""} |->
        IF c = "id" THEN {"INTEGER", "VARCHAR"} ELSE {"VARCHAR"}]

\* One field of the list passed to create_table_dynamic: "" is a missing name.
\* The form of duckdb_app.py builds its fields with these three keys.
Campos ==
    UNION {[name : {c}, data_type : TiposDaColuna[c], primary_key : BOOLEAN] :
              c \in ColunasPipeline \cup {""}}

ListasDeCampos == UNION {[1..n -> Campos] : n \in 0..Cardinality(ColunasPipeline)}

\* The values a form passes to insert_data: st.text_input gives a string, empty
\* when nothing was typed; a caller can also pass None.
ValoresDeFormulario == {None, Py("str", ""), Py("str", "1"), Py("str", "2")}

\* The dictionaries passed to insert_data: a key maps to Ausente when the
\* dictionary does not have it.
Dicionarios == [ColunasPipeline -> ValoresDeFormulario \cup {Ausente}]

\* Decimal numerals of the positive integers.
Numerais == <<"1", "2", "3", "4", "5", "6", "7", "8", "9">>

numero(v) == IF v = "0" THEN 0 ELSE CHOOSE i \in DOMAIN Numerais : Numerais[i] = v

numeral(n) == IF n = 0 THEN "0" ELSE Numerais[n]

\* The value DuckDB stores in a column of a type for a parameter: a string that
\* is not a number cannot be an INTEGER.
converter(v, data_type) ==
    IF v = None THEN None
    ELSE IF data_type = "VARCHAR" THEN Py("str", v.v)
    ELSE IF v.py = "int" THEN v
    ELSE IF \E i \in DOMAIN Numerais : Numerais[i] = v.v THEN Py("int", v.v)
    ELSE Raise("ConversionException")

\* field.get("name") of every field.
nomes(fields) == {fields[i].name : i \in DOMAIN fields}

\* pk_columns, the list of the names of the fields with primary_key set.
pk_columns(fields) ==
    LET pks == SelectSeq(fields, LAMBDA f : f.primary_key)
    IN [i \in DOMAIN pks |-> pks[i].name]

\* The dictionary written to schema_json: the last field of a name wins.
metadata_de(fields) ==
    [c \in ColunasPipeline |->
        IF c \notin nomes(fields) THEN Ausente
        ELSE LET i == CHOOSE i \in DOMAIN fields :
                        /\ fields[i].name = c
                        /\ \A j \in DOMAIN fields : fields[j].name = c => j <= i
             IN [data_type |-> fields[i].data_type,
                 primary_key |-> fields[i].primary_key]]

\* The columns of the PRIMARY KEY clause of the CREATE TABLE statement:
\* duckdb_app.py writes the clause for more than one column only, _duckdb.py
\* for one column too.
clausula_primary_key(mod, fields) ==
    IF mod = "app/duckdb_app.py"
    THEN IF Len(pk_columns(fields)) > 1 THEN Range(pk_columns(fields)) ELSE {}
    ELSE Range(pk_columns(fields))

\* CREATE TABLE: DuckDB rejects an empty column list, a column named twice and
\* a table that exists.
create_table_falha(cat, fields) ==
    \/ cat.existe
    \/ fields = <<>>
    \/ \E i, j \in DOMAIN fields : i # j /\ fields[i].name = fields[j].name

\* create_table_dynamic(table_name, fields): the catalog, the row of
\* table_metadata and the outcome of the call.
create_table_dynamic(mod, cat, meta, fields) ==
    IF meta # SemMetadados
    THEN [catalogo |-> cat, table_metadata |-> meta, devolvido |-> Raise("ValueError")]
    ELSE IF "" \in nomes(fields)
    THEN [catalogo |-> cat, table_metadata |-> meta, devolvido |-> Raise("ValueError")]
    ELSE IF create_table_falha(cat, fields)
    THEN [catalogo |-> cat, table_metadata |-> meta, devolvido |-> Raise("duckdb.Error")]
    ELSE [catalogo |->
             [existe |-> TRUE,
              colunas |-> [c \in ColunasPipeline |->
                              IF c \in nomes(fields)
                              THEN metadata_de(fields)[c].data_type ELSE ""],
              primary_key |-> clausula_primary_key(mod, fields)],
          table_metadata |-> metadata_de(fields),
          devolvido |-> IF mod = "app/duckdb_app.py" THEN Py("bool", "True") ELSE None]

\* primary_keys of insert_data: the columns the metadata flags.
primary_keys(meta) ==
    {c \in ColunasPipeline : meta[c] # Ausente /\ meta[c].primary_key}

\* data.get(pk).
get(data, k) == IF data[k] = Ausente THEN None ELSE data[k]

\* Python's `not v`.
nao(v) == py_bool(v) = Py("bool", "False")

\* The primary keys insert_data reports as missing.
faltando(mod, meta, data) ==
    IF mod = "app/duckdb_app.py"
    THEN {pk \in primary_keys(meta) : nao(get(data, pk))}
    ELSE {pk \in primary_keys(meta) : data[pk] = Ausente}

\* SELECT COALESCE(MAX(id), 0) on an INTEGER column.
max_id(regs) ==
    LET ids == {numero(r["id"].v) : r \in {l \in BagToSet(regs) : l["id"] # None}}
    IN IF ids = {} THEN 0 ELSE CHOOSE m \in ids : \A n \in ids : n <= m

\* _duckdb.py, lines 108-112: a sole primary key named id with no value.
gera_id(mod, meta, data) ==
    /\ mod = "app._duckdb.py"
    /\ primary_keys(meta) = {"id"}
    /\ nao(get(data, "id"))

\* The dictionary after the automatic id; max_id + 1 needs a number.
com_id(cat, regs, data) ==
    [data EXCEPT !["id"] = Py("int", numeral(max_id(regs) + 1))]

\* The parameters of a statement for some columns, as the table stores them.
parametros(cat, data, cols) ==
    [c \in cols |-> converter(data[c], cat.colunas[c])]

\* Variant of seleciona that finds no row.
seleciona_nada(regs, params) == FALSE

\* SELECT 1 FROM table WHERE pk = ? AND ...: a row equal to the parameters on
\* the columns; NULL equals nothing.
seleciona(regs, params) ==
    \E r \in BagToSet(regs) :
        \A c \in DOMAIN params : params[c] # None /\ r[c] = params[c]

\* The row INSERT INTO table (data.keys()) VALUES (data.values()) adds.
nova_linha(cat, data) ==
    [c \in ColunasPipeline |->
        IF cat.colunas[c] = "" THEN Ausente
        ELSE IF data[c] = Ausente THEN None
        ELSE converter(data[c], cat.colunas[c])]

\* INSERT fails: no table, no column named, a column the table does not have,
\* a value that cannot be converted, or the PRIMARY KEY of the table (NOT NULL
\* and UNIQUE).
insert_falha(cat, regs, data) ==
    \/ ~cat.existe
    \/ \A c \in ColunasPipeline : data[c] = Ausente
    \/ \E c \in ColunasPipeline : data[c] # Ausente /\ cat.colunas[c] = ""
    \/ \E c \in ColunasPipeline : nova_linha(cat, data)[c].py = "raise"
    \/ /\ cat.primary_key # {}
       /\ \/ \E c \in cat.primary_key : nova_linha(cat, data)[c] = None
          \/ \E r \in BagToSet(regs) :
                \A c \in cat.primary_key : r[c] = nova_linha(cat, data)[c]

\* The outcome of the except clauses: duckdb_app.py returns False; _duckdb.py
\* calls rollback() first, outside any transaction, which the driver accepts
\* or refuses with an exception of its own.
falhou(mod, regs, aceita) ==
    [registros |-> regs,
     devolvido |-> IF mod = "app/duckdb_app.py" \/ aceita
                   THEN Py("bool", "False") ELSE Raise("duckdb.Error")]

\* The INSERT and what follows it: _duckdb.py calls commit(), outside any
\* transaction; the row is stored either way.
inserir(mod, cat, regs, data, aceita) ==
    IF insert_falha(cat, regs, data) THEN falhou(mod, regs, aceita)
    ELSE [registros |-> regs (+) SetToBag({nova_linha(cat, data)}),
          devolvido |-> IF mod = "app/duckdb_app.py" \/ aceita
                        THEN Py("bool", "True") ELSE Raise("duckdb.Error")]

\* The test for a row with the same primary key, then the INSERT.
verificar_e_inserir(mod, cat, meta, regs, data, aceita) ==
    IF primary_keys(meta) = {} THEN inserir(mod, cat, regs, data, aceita)
    ELSE IF \E c \in primary_keys(meta) :
               parametros(cat, data, primary_keys(meta))[c].py = "raise"
    THEN falhou(mod, regs, aceita)
    ELSE IF seleciona(regs, parametros(cat, data, primary_keys(meta)))
    THEN [registros |-> regs, devolvido |-> Py("bool", "False")]
    ELSE inserir(mod, cat, regs, data, aceita)

\* insert_data(table_name, data): the rows of the table and the outcome of the
\* call.  The fields of the model have no foreign key, so the validation loop
\* of duckdb_app.py finds none.
insert_data(mod, cat, meta, regs, data, aceita) ==
    IF faltando(mod, meta, data) # {}
    THEN [registros |-> regs, devolvido |-> Py("bool", "False")]
    ELSE IF gera_id(mod, meta, data)
    THEN IF cat.colunas["id"] # "INTEGER" THEN falhou(mod, regs, aceita)
         ELSE verificar_e_inserir(mod, cat, meta, regs, com_id(cat, regs, data), aceita)
    ELSE verificar_e_inserir(mod, cat, meta, regs, data, aceita)

InitPipeline ==
    /\ modulo \in Modulos
    /\ catalogo = SemTabela
    /\ table_metadata = SemMetadados
    /\ registros = EmptyBag
    /\ operacao = ""
    /\ devolvido = None
    /\ RepousoOrd
    /\ InitRepouso
    /\ RepousoTipos

CreateTableDynamic ==
    /\ modulo \in Modulos
    /\ \E fields \in ListasDeCampos :
          LET r == create_table_dynamic(modulo, catalogo, table_metadata, fields)
          IN /\ catalogo' = r.catalogo
             /\ table_metadata' = r.table_metadata
             /\ devolvido' = r.devolvido
             /\ operacao' = "create_table_dynamic"
    /\ UNCHANGED <<modulo, registros>>
    /\ UNCHANGED <<varsOrd, varsFonte, varsProcesso, varsDestino, varsMain, varsTabela,
                   varsTipos>>

InsertData ==
    /\ modulo \in Modulos
    /\ BagCardinality(registros) < MaxRegistros
    /\ \E data \in Dicionarios, aceita \in BOOLEAN :
          LET r == insert_data(modulo, catalogo, table_metadata, registros, data, aceita)
          IN /\ registros' = r.registros
             /\ devolvido' = r.devolvido
             /\ operacao' = "insert_data"
    /\ UNCHANGED <<modulo, catalogo, table_metadata>>
    /\ UNCHANGED <<varsOrd, varsFonte, varsProcesso, varsDestino, varsMain, varsTabela,
                   varsTipos>>

NextPipeline == CreateTableDynamic \/ InsertData

SpecPipeline == InitPipeline /\ [][NextPipeline]_vars

(***************************************************************************)
(* Properties of the orderer.                                              *)
(***************************************************************************)

\* Position of a table in a list (0 when absent).
Pos(s, x) == IF x \in Range(s) THEN CHOOSE i \in 1..Len(s) : s[i] = x ELSE 0

\* The foreign keys the orderer reads from the document of t: the referenced
\* tables of its column entries, up to the first entry that cannot be processed.
ChavesLidas(t) ==
    IF t \notin DOMAIN metadados \/ metadados[t].tipo # "objeto" THEN {}
    ELSE LET c == metadados[t].cols
         IN {c[i] : i \in {k \in 1..Len(c) :
                              /\ c[k] \in Nomes
                              /\ \A j \in 1..k : c[j] # "malformado"}}

\* Foreign keys among the tables of the input list, as pairs <<R, T>>: T
\* references R.
ArestasFK ==
    {<<r, t>> \in Range(tabelas) \X Range(tabelas) : r \in ChavesLidas(t)}

\* The foreign-key graph restricted to the list has a cycle: some non-empty set
\* of tables in which every table references a table of the set.
TemCiclo ==
    \E S \in SUBSET Range(tabelas) :
        /\ S # {}
        /\ \A t \in S : \E r \in S : <<r, t>> \in ArestasFK

EhPermutacao(s, t) ==
    /\ Len(s) = Len(t)
    /\ Range(s) = Range(t)
    /\ \A i, j \in 1..Len(s) : i # j => s[i] # s[j]

\* C1: when the foreign-key graph among the input tables is acyclic, every
\* referenced table that is in the list comes strictly before the table that
\* references it in the list returned.
C1_OrdemRespeitaDependencias ==
    (fase = "ordenado" /\ ~TemCiclo) =>
        \A e \in ArestasFK :
            /\ Pos(tabelas_ordenadas, e[1]) > 0
            /\ Pos(tabelas_ordenadas, e[1]) < Pos(tabelas_ordenadas, e[2])

\* C1 witness: an acyclic input in which a referencing table precedes the
\* table it references, so the orderer had to move it.
C1_Witness ==
    /\ fase = "ordenado"
    /\ ~TemCiclo
    /\ \E e \in ArestasFK : Pos(tabelas, e[2]) < Pos(tabelas, e[1])
    /\ \E t \in Range(tabelas) : Cardinality(ChavesLidas(t) \cap Range(tabelas)) = 2

\* C7: when the foreign-key graph among the input tables has a cycle, the
\* orderer returns the input list itself, in its original order.
C7_CicloDevolveEntrada ==
    (fase = "ordenado" /\ TemCiclo) => tabelas_ordenadas = tabelas

\* C7 witness: a cyclic input of three tables in which one table is outside
\* the cycle and would have been moved to the front.
C7_Witness ==
    /\ fase = "ordenado"
    /\ TemCiclo
    /\ Len(tabelas) = 3
    /\ ChavesLidas(tabelas[3]) \cap Range(tabelas) = {}
    /\ ChavesLidas(tabelas[1]) \cap Range(tabelas) # {}
    /\ tabelas_ordenadas = tabelas

\* C8: for every input (acyclic, cyclic, missing or malformed metadata) the
\* list returned is a permutation of the input list.
C8_ResultadoEhPermutacao ==
    fase = "ordenado" => EhPermutacao(tabelas_ordenadas, tabelas)

\* C8 witness: a malformed document and a cycle in the same input of three
\* tables.
C8_Witness ==
    /\ fase = "ordenado"
    /\ Len(tabelas) = 3
    /\ TemCiclo
    /\ \E t \in Range(tabelas) : metadados[t].tipo = "invalido"
    /\ \E t \in Range(tabelas) : "malformado" \in Range(metadados[t].cols)
    /\ EhPermutacao(tabelas_ordenadas, tabelas)

(***************************************************************************)
(* Properties of main and processar_tabela.                                *)
(***************************************************************************)

\* C2: a table whose processing fails does not keep the tables after it from
\* being processed: when main ends, processar_tabela has been called for every
\* table of the ordered list.
C2_FalhaNaoImpedeRestantes ==
    (pc = "fim" /\ fase = "ordenado") =>
        Range(tabelas_ordenadas) \subseteq Range(processadas)

\* C3: the control row of a table is written, and committed, only after the
\* rows of that load are committed: a committed control row counts rows the
\* destination holds, and a control row written in the open transaction finds
\* every row read from the source committed and nothing uncommitted.
C3_ControleAposDados ==
    /\ \A t \in TabelasDestino :
          dest.controle[t].existe =>
              /\ t \in dest.tabelas
              /\ Cardinality({k \in Chaves : dest.linhas[t][k] > 0})
                     >= dest.controle[t].linhas_carregadas
    /\ \A t \in TabelasDestino :
          tx.controle[t] # dest.controle[t] =>
              /\ t = nome_tabela
              /\ pendentes = <<>>
              /\ tx.linhas = dest.linhas
              /\ \A k \in Range(dados) : dest.linhas[t][k] > 0

\* C3 witness: the control row of a data table loaded with two rows is
\* committed and processar_tabela has returned.
C3_Witness ==
    /\ ppc = "retornou"
    /\ nome_tabela \in TabelasDados
    /\ dest.controle[nome_tabela].existe
    /\ dest.controle[nome_tabela].linhas_carregadas = 2
    /\ dest.controle[nome_tabela].ultima_carga = execucao

\* C4: a row whose primary key is already in the destination is skipped: the
\* load raises no unique violation and no key is held twice under a primary
\* key.
C4_ConflitoIgnorado ==
    /\ erro # "UniqueViolation"
    /\ \A t \in dest.pk : \A k \in Chaves : dest.linhas[t][k] <= 1

\* C5: when the table has a control row, only the source rows newer than its
\* ultima_carga are read for the load.
C5_SoLinhasNovas ==
    (pc = "tabela" /\ ppc = "inserir" /\ nome_tabela \in TabelasDados /\ existe) =>
        \A k \in Range(dados) :
            src_ts[nome_tabela][k] >= dest.controle[nome_tabela].ultima_carga

\* C6: preparing a table the destination already has raises no error: no
\* CREATE TABLE is rejected because the table exists.
C6_PrepararIdempotente ==
    erro # "DuplicateTable"

\* C9: when processar_tabela fails, the control row of its table is the one it
\* found when it was called.
C9_FalhaPreservaControle ==
    ppc = "falhou" =>
        /\ dest.controle[nome_tabela] = controleAntes
        /\ tx.controle[nome_tabela] = controleAntes

\* C9 witness: the load of a table that has a control row fails on an INSERT,
\* after rows of the same load were sent.
C9_Witness ==
    /\ ppc = "falhou"
    /\ controleAntes.existe
    /\ erro = "UniqueViolation"
    /\ nome_tabela \in TabelasDados
    /\ Len(dados) = 2

\* C10: an execution of main ends with the source connection closed and no
\* destination connection left open.
C10_ConexoesLiberadas ==
    pc = "fim" => (conn_duckdb = "fechada" /\ destAbertas = 0)

\* C11: when the configuration is missing, the source file is absent or the
\* connection at the start of main fails, processar_tabela is called for no
\* table and the destination stays as the process found it.
C11_FalhaDeSetupNadaGrava ==
    setup = "falhou" => (processadas = <<>> /\ dest = destInicio)

\* C11 witness: a second execution finds a destination a first execution has
\* loaded, fails to connect at the start of main and ends.
C11_Witness ==
    /\ setup = "falhou"
    /\ pc = "saiu"
    /\ erro = "OperationalError"
    /\ execucao = 2
    /\ \E t \in TabelasDados : dest.controle[t].existe

\* C12: after two successive successful loads of a table its linhas_carregadas
\* is the sum of the rows of the two loads: the second load adds its rows to
\* the count the first one stored.
C12_ContagemCumulativa ==
    (ppc = "retornou" /\ controleAntes.existe) =>
        dest.controle[nome_tabela].linhas_carregadas
            = controleAntes.linhas_carregadas + Len(dados)

\* C13: after a successful load of a table with rows, ultima_carga is the
\* greatest timestamp among the rows of that load.
C13_MarcaEhMaximoDasLinhas ==
    (ppc = "retornou" /\ nome_tabela \in TabelasDados /\ dados # <<>>) =>
        /\ \A k \in Range(dados) :
              src_ts[nome_tabela][k] <= dest.controle[nome_tabela].ultima_carga
        /\ \E k \in Range(dados) :
              src_ts[nome_tabela][k] = dest.controle[nome_tabela].ultima_carga

\* C14: when the setup succeeded and the processing of a table failed, the
\* process ends with exit status zero.
C14_StatusZeroAposSetup ==
    (pc = "saiu" /\ setup = "ok" /\ ppc = "falhou") => status = 0

\* C15: when the table has a control row, the destination table has no
\* primary key, the source has one and the constraint cannot be added,
\* processar_tabela raises nothing, leaves the destination as it was (no
\* primary key) and goes on to the foreign-key step of the table.
C15_FalhaDaPKContinua ==
    [][(/\ pc = "tabela" /\ ppc = "preparar"
        /\ existe
        /\ nome_tabela \notin tx.pk
        /\ TemPKFonte(nome_tabela)
        /\ ppc' # "preparar"
        /\ nome_tabela \notin tx'.pk)
       => (/\ pc' = "tabela" /\ ppc' = "fk"
           /\ erro' = ""
           /\ dest' = dest
           /\ nome_tabela' = nome_tabela)]_vars

\* C15 witness: a load whose primary key could not be added has gone through
\* the foreign-key step and the rows, and has committed its control row.
C15_Witness ==
    /\ ppc = "retornou"
    /\ existe
    /\ nome_tabela \in TabelasDados
    /\ TemPKFonte(nome_tabela)
    /\ nome_tabela \notin dest.pk
    /\ dados # <<>>
    /\ dest.controle[nome_tabela].ultima_carga = execucao

\* The metadata without the foreign keys that reference a table outside the
\* list: each such entry becomes a column without foreign key.
SemExternas(meta, tabs) ==
    [t \in DOMAIN meta |->
        [tipo |-> meta[t].tipo,
         cols |-> [i \in 1..Len(meta[t].cols) |->
                     IF meta[t].cols[i] \in Nomes \ Range(tabs)
                     THEN "sem_fk" ELSE meta[t].cols[i]]]]

\* C16: a foreign key whose referenced table is not in the input list creates
\* no edge: the list returned is the one returned for the same input without
\* those foreign keys (same in-degrees, same cycles, same order).
C16_ReferenciaExternaIgnorada ==
    fase = "ordenado" =>
        tabelas_ordenadas =
            ordenar_tabelas_topologicamente(tabelas, SemExternas(metadados, tabelas))

\* C16 witness: a table with a foreign key to a table outside the list and one
\* to a table of the list, which the orderer moved before it.
C16_Witness ==
    /\ fase = "ordenado"
    /\ pc = "parado"
    /\ tabelas_ordenadas # tabelas
    /\ \E t \in Range(tabelas) :
          /\ ChavesLidas(t) \ Range(tabelas) # {}
          /\ \E r \in ChavesLidas(t) \cap Range(tabelas) :
                Pos(tabelas, t) < Pos(tabelas, r)

\* A document the orderer cannot process: text that is not JSON, or an object
\* with an entry that is not an object.
Inprocessavel(doc) ==
    \/ doc.tipo = "invalido"
    \/ doc.tipo = "objeto" /\ "malformado" \in Range(doc.cols)

\* The metadata in which every table with a document that cannot be processed
\* has no document.
SemInprocessaveis(meta) ==
    [t \in DOMAIN meta |-> IF Inprocessavel(meta[t]) THEN DocVazio ELSE meta[t]]

\* C17: a table whose document is absent or cannot be processed contributes
\* no edge of its own: the list returned is the one returned when those tables
\* have no document, so the foreign keys of the other tables order it.
C17_InprocessavelSemArestas ==
    fase = "ordenado" =>
        tabelas_ordenadas =
            ordenar_tabelas_topologicamente(tabelas, SemInprocessaveis(metadados))

\* The tables of the list with no foreign key to a table of the list, in
\* input order.
SemDependencia ==
    SelectSeq(tabelas, LAMBDA t : ChavesLidas(t) \cap Range(tabelas) = {})

\* C18: ties are broken by input order: on an acyclic input the list returned
\* starts with the tables that have no dependency inside the list, in their
\* input order; with no foreign key among the tables it is the input list.
C18_EmpateNaOrdemDeEntrada ==
    (fase = "ordenado" /\ ~TemCiclo) =>
        /\ SubSeq(tabelas_ordenadas, 1, Len(SemDependencia)) = SemDependencia
        /\ (ArestasFK = {} => tabelas_ordenadas = tabelas)

\* C18 witness: two tables without dependency in an input order that is not
\* alphabetical, after a table that depends on one of them.
C18_Witness ==
    /\ fase = "ordenado"
    /\ pc = "parado"
    /\ ~TemCiclo
    /\ Len(tabelas) = 3
    /\ SemDependencia = <<"pedidos", "clientes">>
    /\ tabelas[1] = "itens"
    /\ tabelas_ordenadas = <<"pedidos", "clientes", "itens">>

\* C19: the metadata tables of the source are not passed to the orderer and
\* not transferred: processar_tabela is called for neither and the destination
\* gets neither as a table.
C19_MetadadosForaDaCarga ==
    \A t \in {"table_metadata", "fk_metadata"} :
        /\ t \notin Range(tabelas)
        /\ t \notin Range(processadas)
        /\ t \notin dest.tabelas

\* C20: controle_cargas holds at most one row per table name, and a table
\* that has a control row has one after every step.
C20_UmaLinhaPorTabela ==
    [][\A t \in TabelasDestino :
          /\ dest'.controle[t].copias <= 1
          /\ dest.controle[t].existe => dest'.controle[t].existe
          /\ dest'.controle[t].existe <=> dest'.controle[t].copias = 1]_vars

\* C20 witness: a second execution has loaded a table again and committed the
\* update of its control row.
C20_Witness ==
    /\ ppc = "retornou"
    /\ controleAntes.existe
    /\ controleAntes.ultima_carga < execucao
    /\ dest.controle[nome_tabela].ultima_carga = execucao
    /\ dest.controle[nome_tabela].copias = 1

(***************************************************************************)
(* Properties of the type mappers.                                         *)
(***************************************************************************)

\* k occurs in s at position i.
Ocorre(s, k, i) ==
    /\ i >= 1
    /\ i + Len(k) - 1 <= Len(s)
    /\ \A j \in 1..Len(k) : s[i + j - 1] = k[j]

TemPalavra(s, k) == \E i \in 1..Len(s) : Ocorre(s, k, i)

\* The position of the first occurrence of k in s, for a string that has one.
PrimeiraOcorrencia(s, k) ==
    CHOOSE i \in 1..Len(s) : Ocorre(s, k, i) /\ \A j \in 1..(i - 1) : ~Ocorre(s, k, j)

\* The text of s after its first occurrence of k.
DepoisDe(s, k) == SubSeq(s, PrimeiraOcorrencia(s, k) + Len(k), Len(s))

\* The text of s between its first occurrence of k and the next occurrence
\* that starts after it, or the end of s.
AteProxima(s, k) ==
    LET resto == DepoisDe(s, k)
    IN IF TemPalavra(resto, k)
       THEN SubSeq(resto, 1, PrimeiraOcorrencia(resto, k) - 1)
       ELSE resto

\* The type name has none of the four keywords, in any letter case.
SemPalavraChave(s) ==
    \A k \in {TINYINT, BLOB, DOUBLE, DECIMAL} : ~TemPalavra(upper(s), k)

\* C21 as stated: whatever the letter case of the type name, TINYINT gives
\* SMALLINT, else BLOB gives BYTEA, else DOUBLE gives DOUBLE PRECISION, else
\* DECIMAL gives NUMERIC followed by the text after the keyword as it was
\* passed in, and a type name with none of the keywords is returned unchanged.
C21_MapeamentoDeTipos ==
    chamada = "mapear_tipo_duckdb_para_postgres_type" =>
        LET u == upper(tipo_duckdb)
        IN IF TemPalavra(u, TINYINT) THEN tipo_postgres = SMALLINT
           ELSE IF TemPalavra(u, BLOB) THEN tipo_postgres = BYTEA
           ELSE IF TemPalavra(u, DOUBLE) THEN tipo_postgres = DOUBLE_PRECISION
           ELSE IF TemPalavra(u, DECIMAL)
           THEN tipo_postgres =
                    NUMERIC \o SubSeq(tipo_duckdb,
                                      PrimeiraOcorrencia(u, DECIMAL) + Len(DECIMAL),
                                      Len(tipo_duckdb))
           ELSE tipo_postgres = tipo_duckdb

\* C21 amended: whatever the letter case of the type name, TINYINT gives
\* SMALLINT, else BLOB gives BYTEA, else DOUBLE gives DOUBLE PRECISION, else
\* DECIMAL gives NUMERIC followed by the upper-cased text between the first
\* DECIMAL and the next one (or the end), and a type name with none of the
\* keywords is returned upper-cased.
C21_MapeamentoEmMaiusculas ==
    chamada = "mapear_tipo_duckdb_para_postgres_type" =>
        LET u == upper(tipo_duckdb)
        IN IF TemPalavra(u, TINYINT) THEN tipo_postgres = SMALLINT
           ELSE IF TemPalavra(u, BLOB) THEN tipo_postgres = BYTEA
           ELSE IF TemPalavra(u, DOUBLE) THEN tipo_postgres = DOUBLE_PRECISION
           ELSE IF TemPalavra(u, DECIMAL)
           THEN tipo_postgres = NUMERIC \o AteProxima(u, DECIMAL)
           ELSE tipo_postgres = u

\* C21 witness: decimal(10,2), in lower case, has given NUMERIC(10,2).
C21_Witness ==
    /\ chamada = "mapear_tipo_duckdb_para_postgres_type"
    /\ tipo_duckdb = lower(DECIMAL) \o <<"(", "1", "0", ",", "2", ")">>
    /\ tipo_postgres = NUMERIC \o <<"(", "1", "0", ",", "2", ")">>

\* C22: a null value is returned as null for every type name, and raises no
\* conversion error.
C22_NuloPassaDireto ==
    (chamada = "mapear_tipo_duckdb_para_postgres" /\ valor = None) =>
        convertido = None

\* C22 witness: a null value of an INTEGER column has been mapped to null
\* (int(None) would have raised).
C22_Witness ==
    /\ chamada = "mapear_tipo_duckdb_para_postgres"
    /\ valor = None
    /\ tipo_duckdb = INTEGER
    /\ py_int(valor) = Raise("TypeError")
    /\ convertido = None

(***************************************************************************)
(* Further properties of main and processar_tabela.                        *)
(***************************************************************************)

\* C23: between two executions a data table exists in the destination if and
\* only if controle_cargas has a row for it, and processar_tabela never
\* reaches its CREATE TABLE (no control row found) for a data table the
\* destination has.
C23_TabelaSeESoSeControle ==
    /\ pc = "saiu" =>
          \A t \in TabelasDados : t \in dest.tabelas <=> dest.controle[t].existe
    /\ (pc = "tabela" /\ ppc = "preparar" /\ ~existe /\ nome_tabela \in TabelasDados)
          => nome_tabela \notin tx.tabelas

\* C24: when the conversion or the insertion of a row fails, no row of that
\* call is in the destination (the table holds the rows it held when the
\* process started, and nothing is left uncommitted), while a table created
\* by the call is there.
C24_LinhasTudoOuNada ==
    (ppc = "falhou" /\ pendentes # <<>>) =>
        /\ dest.linhas[nome_tabela] = destInicio.linhas[nome_tabela]
        /\ tx.linhas = dest.linhas
        /\ nome_tabela \in dest.tabelas
        /\ ~existe => nome_tabela \notin destInicio.tabelas

\* C24 witness: the call created the table, one row was inserted and the next
\* one failed.
C24_Witness ==
    /\ ppc = "falhou"
    /\ ~existe
    /\ nome_tabela \in TabelasDados
    /\ Len(dados) = 2
    /\ Len(pendentes) = 1
    /\ nome_tabela \in dest.tabelas
    /\ \A k \in Chaves : dest.linhas[nome_tabela][k] = 0

(***************************************************************************)
(* Further properties of the orderer.                                      *)
(***************************************************************************)

\* A table of the list has a foreign key to itself.
TemAutoReferencia == \E t \in Range(tabelas) : t \in ChavesLidas(t)

\* The foreign keys between two different tables of the list have no cycle.
SemCicloEntreTabelas ==
    \A S \in SUBSET Range(tabelas) :
        S # {} => \E t \in S : \A r \in S \ {t} : <<r, t>> \notin ArestasFK

\* C25: when a table of the input has a foreign key that references the table
\* itself, the orderer returns the input list in its original order, whatever
\* the foreign keys of the other tables.
C25_AutoReferenciaDevolveEntrada ==
    (fase = "ordenado" /\ TemAutoReferencia) => tabelas_ordenadas = tabelas

\* C25 witness: the only cycle is one table's reference to itself, and the
\* list returned has another table before the table it references.
C25_Witness ==
    /\ fase = "ordenado"
    /\ pc = "parado"
    /\ TemAutoReferencia
    /\ SemCicloEntreTabelas
    /\ tabelas_ordenadas = tabelas
    /\ \E e \in ArestasFK :
          /\ e[1] # e[2]
          /\ e[1] \notin ChavesLidas(e[1])
          /\ e[2] \notin ChavesLidas(e[2])
          /\ Pos(tabelas_ordenadas, e[2]) < Pos(tabelas_ordenadas, e[1])

(***************************************************************************)
(* Properties of main with the orderer.                                    *)
(***************************************************************************)

\* The tables the document of t declares a foreign key to.
Referenciadas(t) ==
    IF t \in Nomes /\ metadados[t].tipo = "objeto"
    THEN Range(metadados[t].cols) \cap Nomes
    ELSE {}

\* C26: in an execution whose foreign keys have no cycle and in which nothing
\* has failed, when processar_tabela reaches the foreign-key step of a table,
\* every table of the execution it references is in the destination and has
\* been loaded by this execution.
C26_ReferenciadasJaCarregadas ==
    (pc = "tabela" /\ ppc = "fk" /\ fase = "ordenado" /\ ~TemCiclo /\ erro = "") =>
        \A r \in Referenciadas(nome_tabela) \cap Range(tabelas) :
            /\ r \in dest.tabelas
            /\ dest.controle[r].existe
            /\ dest.controle[r].ultima_carga = execucao

\* C26 witness: SHOW TABLES lists the referencing table first; the orderer
\* moved the referenced table before it, and the referencing table is at its
\* foreign-key step with the referenced table loaded.
C26_Witness ==
    /\ pc = "tabela" /\ ppc = "fk"
    /\ fase = "ordenado" /\ ~TemCiclo /\ erro = ""
    /\ tabelas_ordenadas # tabelas
    /\ \E r \in Referenciadas(nome_tabela) \cap Range(tabelas) :
          /\ Pos(tabelas, nome_tabela) < Pos(tabelas, r)
          /\ dest.controle[r].ultima_carga = execucao
          /\ r \in dest.pk

\* C27: when the source has table_metadata, main calls processar_tabela for
\* it first and once in the execution, the list given to the orderer does not
\* hold it, no other table is reached without it, and when its processing
\* fails no other table is processed in the execution.
C27_MetadadosPrimeiroEUmaVez ==
    "table_metadata" \in src_tabelas =>
        /\ "table_metadata" \notin Range(tabelas)
        /\ "table_metadata" \notin Range(tabelas_ordenadas)
        /\ processadas # <<>> =>
              /\ processadas[1] = "table_metadata"
              /\ \A i \in 2..Len(processadas) : processadas[i] # "table_metadata"
        /\ pc \in {"metadados", "laco"} => processadas # <<>>
        /\ (ppc = "falhou" /\ nome_tabela = "table_metadata")
              => processadas = <<"table_metadata">>

\* C27 witness: an execution in which table_metadata was loaded first and the
\* data tables after it, in a process that has ended.
C27_Witness ==
    /\ pc = "saiu"
    /\ "table_metadata" \in src_tabelas
    /\ Len(processadas) = 3
    /\ processadas[1] = "table_metadata"
    /\ dest.controle["table_metadata"].ultima_carga = execucao
    /\ dest.controle["table_metadata"].linhas_carregadas > 0

\* The entries of the document of the table at its foreign-key step whose
\* constraint the step tries to add, given the destination it finds: the
\* document is read, no entry before or at the position is malformed, the
\* constraint is not there, the referenced table is, with a primary key.
FKsTentadas ==
    {i \in EntradasDe(nome_tabela) :
        /\ "table_metadata" \in tx.tabelas
        /\ tx.linhas["table_metadata"][ChaveDe(nome_tabela)] > 0
        /\ ~src_json
        /\ \A j \in 1..i : src_meta[nome_tabela].cols[j] # "malformado"
        /\ src_meta[nome_tabela].cols[i] \in Nomes
        /\ <<nome_tabela, i, src_meta[nome_tabela].cols[i]>> \notin dest.fks
        /\ src_meta[nome_tabela].cols[i] \in dest.tabelas
        /\ src_meta[nome_tabela].cols[i] \in dest.pk}

\* The document of the table has an entry that is not an object.
TemMalformado(t) == \E i \in EntradasDe(t) : src_meta[t].cols[i] = "malformado"

\* C28: in the foreign-key step of a table, only constraints that do not
\* exist yet, whose referenced table exists and has a primary key, are added;
\* a constraint that is tried and not added does not fail the table (nothing is
\* raised, the transaction is clean and the step goes on to the rows); and
\* of the constraints tried, at most the one the server rejected for a reason
\* of its own, and those the rows of the table rule out, are missing.
C28_FalhaDeFKNaoFalhaTabela ==
    [][(pc = "tabela" /\ ppc = "fk" /\ ppc' # "fk" /\ nome_tabela # "table_metadata") =>
          LET cols == src_meta[nome_tabela].cols
              novas == dest'.fks \ dest.fks
              faltam == {i \in FKsTentadas : <<nome_tabela, i, cols[i]>> \notin dest'.fks}
          IN /\ novas \subseteq {<<nome_tabela, i, cols[i]>> : i \in FKsTentadas}
             /\ (faltam # {} /\ ~TemMalformado(nome_tabela)) =>
                   /\ pc' = "tabela" /\ ppc' = "ler"
                   /\ erro' = ""
                   /\ txAbortada' = FALSE
                   /\ tx' = dest'
             /\ Cardinality({i \in faltam : FKValida(dest, nome_tabela, cols[i])})
                    <= falhas' - falhas]_vars

\* C28 witness: pedidos has two foreign keys to clientes; the first was
\* rejected and the second added, and the rows and the control row of pedidos
\* are committed.
C28_Witness ==
    /\ ppc = "retornou"
    /\ nome_tabela = "pedidos"
    /\ src_meta["pedidos"].cols = <<"clientes", "clientes">>
    /\ "clientes" \in dest.pk
    /\ <<"pedidos", 1, "clientes">> \notin dest.fks
    /\ <<"pedidos", 2, "clientes">> \in dest.fks
    /\ dados # <<>>
    /\ \A k \in Range(dados) : dest.linhas["pedidos"][k] > 0
    /\ dest.controle["pedidos"].ultima_carga = execucao

(***************************************************************************)
(* Properties of DuckDBPipeline.                                           *)
(***************************************************************************)
\* The columns the table_metadata entry of the table flags primary_key.
ChavesNosMetadados == primary_keys(table_metadata)

\* C29: once create_table_dynamic has created the table, the columns its
\* table_metadata entry flags primary_key are exactly the columns of the
\* primary key of the physical table, for one primary-key column as well as
\* for several.
C29_ChavePrimariaFisicaComoNosMetadados ==
    table_metadata # SemMetadados =>
        /\ catalogo.existe
        /\ catalogo.primary_key = ChavesNosMetadados

\* No two rows of the table have the same values in the columns the metadata
\* flags primary_key.
ChavesUnicas ==
    \A r \in BagToSet(registros) :
        /\ CopiesIn(r, registros) = 1
        /\ \A q \in BagToSet(registros) :
              q # r => \E c \in ChavesNosMetadados : q[c] # r[c]

\* The dictionary has no entry for some primary-key column.
SemEntradaDeChave(data) == \E c \in ChavesNosMetadados : data[c] = Ausente

\* The dictionary lacks a value for some primary-key column: no entry, None or
\* the empty string.
SemValorDeChave(data) ==
    \E c \in ChavesNosMetadados : data[c] \in {Ausente, None, Py("str", "")}

\* Some row of the table has the primary-key values of the dictionary.
ChaveJaExiste(data) ==
    /\ ~SemValorDeChave(data)
    /\ \E r \in BagToSet(registros) :
          \A c \in ChavesNosMetadados :
              r[c] = converter(data[c], catalogo.colunas[c])

\* The call insert_data(table_name, data) returns False and leaves the table
\* as it is.
Recusa(data) ==
    \A aceita \in BOOLEAN :
        insert_data(modulo, catalogo, table_metadata, registros, data, aceita)
            = [registros |-> registros, devolvido |-> Py("bool", "False")]

\* C30 as stated: for a table whose metadata declares primary-key columns, no
\* two rows share the same primary-key values after any sequence of
\* insert_data calls, and a call whose primary-key values already exist, or
\* that lacks a primary-key value, returns False and leaves the table
\* unchanged.
C30_ChaveRepetidaOuSemValorRecusada ==
    ChavesNosMetadados # {} =>
        /\ ChavesUnicas
        /\ \A data \in Dicionarios :
              (ChaveJaExiste(data) \/ SemValorDeChave(data)) => Recusa(data)

\* C30: for a table whose metadata declares primary-key columns, no two rows
\* share the same primary-key values after any sequence of insert_data calls;
\* a call whose primary-key values already exist returns False and leaves the
\* table unchanged, and so does a call that lacks a primary-key value, which
\* in duckdb_app.py is a value that is missing, None or empty and in
\* _duckdb.py a primary-key column with no entry in the dictionary.
C30_ChaveRepetidaOuFaltandoRecusada ==
    ChavesNosMetadados # {} =>
        /\ ChavesUnicas
        /\ \A data \in Dicionarios :
              (\/ ChaveJaExiste(data)
               \/ SemEntradaDeChave(data)
               \/ modulo = "app/duckdb_app.py" /\ SemValorDeChave(data))
                  => Recusa(data)

\* C30 witness: the table of duckdb_app.py has the sole primary key id and no
\* physical primary key, it holds the row of id 1, and the last insert_data
\* returned False; a second call with id 1 is such a call.
C30_Witness ==
    /\ modulo = "app/duckdb_app.py"
    /\ ChavesNosMetadados = {"id"}
    /\ catalogo.primary_key = {}
    /\ BagCardinality(registros) = 1
    /\ \E r \in BagToSet(registros) : r["id"] = Py("int", "1")
    /\ \E data \in Dicionarios : ChaveJaExiste(data)
    /\ operacao = "insert_data"
    /\ devolvido = Py("bool", "False")

====
